---- MODULE Spec2Model ----
(***************************************************************************)
(* Model of the search-query compiler of                                   *)
(* packages/api/src/services/library_item.ts: buildQuery and the closures  *)
(* it defines (escapeQueryWithParameters, serializeImplicitField,          *)
(* serializeTagExpression, serialize), the helpers getColumnName and       *)
(* handleNoCase, and the caller searchLibraryItems that adds the default   *)
(* order.                                                                  *)
(*                                                                         *)
(* Strings the code inspects character by character (tag values, field     *)
(* names) are sequences of one-character strings; SQL text, parameter      *)
(* names and aliases, which the code only concatenates, are TLA+ strings.  *)
(* Str joins a character sequence into a string.                           *)
(***************************************************************************)
EXTENDS Integers, Sequences, FiniteSets, TLC

VARIABLES
  searchQuery,  \* the expression tree of the request (NoQuery: none)
  useFolders,   \* args.useFolders
  clock,        \* the instants the next reads of the wall clock return
  parameters,   \* ObjectLiteral[]: the bindings, one entry per push
  selects,      \* Select[]
  orders,       \* Sort[]
  query,        \* the predicate buildQuery returned, Null for null
  error,        \* the message of the Error thrown, "" for none
  pc,           \* start, built (buildQuery returned), searched
  entry,        \* the lists and the clock as they were when buildQuery was entered
  calls,        \* the calls of buildQuery made so far
  time,         \* the wall clock of the batch job and of the storage
  items,        \* omnivore.library_item: the rows of the user, by id
  entityLabels, \* the EntityLabel rows saved, in the order of their insertion
  job,          \* batchUpdateLibraryItems: its locals and its position
  history,      \* what the job found and did: rows at its start, rows
                \* modified by each step, rows when the first run ended
  jobs,         \* the calls of batchUpdateLibraryItems that run side by side
  progress      \* updateLibraryItemReadingProgress: the reading progress
                \* stored for one item, and the last call with its result

compileVars == <<searchQuery, useFolders, clock, parameters, selects, orders,
                 query, error, pc, entry, calls>>
batchVars == <<time, items, entityLabels, job, history, jobs, progress>>
vars == <<compileVars, batchVars>>

-----------------------------------------------------------------------------
(* Bounds of the model *)

\* nodes of an expression tree
MaxNodes == 3
\* comma-separated elements of a generated label value
MaxLabels == 2
\* parameters already bound when buildQuery is entered
MaxBound == 1
\* clock ticks per calendar day
TicksPerDay == 2
\* instants after the earliest one at which a request may read the clock
ClockSpan == 2
\* calls of buildQuery made one after another in one process
MaxCalls == 2
MaxLogicNodes == 6
MaxProgress == 2
\* rows of the user in omnivore.library_item
MaxRows == 4
\* rows one UPDATE of the batch loop may take (1000 in the code)
batchSize == 2
\* the last instant of the wall clock of a batch job
MaxTime == 2
\* runs of a batch job with the same criteria
MaxRuns == 2

-----------------------------------------------------------------------------
\* F applied to the value of v: a local constant, evaluated once
Let(v, F(_)) == CHOOSE r \in { F(x) : x \in {v} } : TRUE

-----------------------------------------------------------------------------
(* JavaScript string operations on character sequences *)

RECURSIVE Str(_)
Str(s) == IF s = <<>> THEN "" ELSE Head(s) \o Str(Tail(s))

UpperCase ==
  <<"A", "B", "C", "D", "E", "F", "G", "H", "I", "J", "K", "L", "M", "N",
    "O", "P", "Q", "R", "S", "T", "U", "V", "W", "X", "Y", "Z">>
LowerCase ==
  <<"a", "b", "c", "d", "e", "f", "g", "h", "i", "j", "k", "l", "m", "n",
    "o", "p", "q", "r", "s", "t", "u", "v", "w", "x", "y", "z">>

LowerOf(ch) ==
  IF \E i \in 1..Len(UpperCase) : UpperCase[i] = ch
  THEN LowerCase[CHOOSE i \in 1..Len(UpperCase) : UpperCase[i] = ch]
  ELSE ch

\* String.prototype.toLowerCase
toLowerCase(s) == [i \in 1..Len(s) |-> LowerOf(s[i])]

\* whether sep occurs in s at position i
MatchAt(s, sep, i) ==
  /\ i + Len(sep) - 1 <= Len(s)
  /\ \A k \in 1..Len(sep) : s[i + k - 1] = sep[k]

\* String.prototype.indexOf, 1-based; 0 when sep does not occur
IndexOf(s, sep) ==
  IF \E i \in 1..Len(s) : MatchAt(s, sep, i)
  THEN CHOOSE i \in 1..Len(s) :
         /\ MatchAt(s, sep, i)
         /\ \A j \in 1..(i - 1) : ~MatchAt(s, sep, j)
  ELSE 0

\* String.prototype.split with a non-empty separator
RECURSIVE split(_, _)
split(s, sep) ==
  LET i == IndexOf(s, sep) IN
  IF i = 0 THEN <<s>>
  ELSE <<SubSeq(s, 1, i - 1)>> \o split(SubSeq(s, i + Len(sep), Len(s)), sep)

\* String.prototype.includes for one character
includes(s, ch) == \E i \in 1..Len(s) : s[i] = ch

\* String.prototype.replace(/\*/g, '%')
replaceStars(s) == [i \in 1..Len(s) |-> IF s[i] = "*" THEN "%" ELSE s[i]]

\* Array.prototype.join on strings
RECURSIVE join(_, _)
join(parts, sep) ==
  IF Len(parts) = 0 THEN ""
  ELSE IF Len(parts) = 1 THEN parts[1]
  ELSE parts[1] \o sep \o join(Tail(parts), sep)

Digits == {"0", "1", "2", "3", "4", "5", "6", "7", "8", "9"}

DigitValue(ch) ==
  CASE ch = "0" -> 0 [] ch = "1" -> 1 [] ch = "2" -> 2 [] ch = "3" -> 3
    [] ch = "4" -> 4 [] ch = "5" -> 5 [] ch = "6" -> 6 [] ch = "7" -> 7
    [] ch = "8" -> 8 [] ch = "9" -> 9

\* the longest prefix of s made of digits
RECURSIVE DigitPrefix(_)
DigitPrefix(s) ==
  IF s # <<>> /\ Head(s) \in Digits
  THEN <<Head(s)>> \o DigitPrefix(Tail(s))
  ELSE <<>>

RECURSIVE DigitsToNat(_)
DigitsToNat(s) ==
  IF s = <<>> THEN 0
  ELSE 10 * DigitsToNat(SubSeq(s, 1, Len(s) - 1)) + DigitValue(s[Len(s)])

\* parseInt(s, 10): an optional sign and the leading digits; NaN without digits
parseInt(s) ==
  LET neg  == s # <<>> /\ Head(s) = "-"
      body == IF s # <<>> /\ Head(s) \in {"-", "+"} THEN Tail(s) ELSE s
      ds   == DigitPrefix(body)
  IN IF ds = <<>> THEN <<"NaN">>
     ELSE <<"int", IF neg THEN 0 - DigitsToNat(ds) ELSE DigitsToNat(ds)>>

-----------------------------------------------------------------------------
(* Dates: an instant is a number of clock ticks since the epoch, the       *)
(* server's zone is taken to be UTC                                        *)

\* new Date(0)
Epoch == 0

\* days since the epoch of the civil date y-m-d
DaysFromCivil(y, m, d) ==
  LET yy  == IF m <= 2 THEN y - 1 ELSE y
      era == yy \div 400
      yoe == yy - era * 400
      mp  == IF m > 2 THEN m - 3 ELSE m + 9
      doy == (153 * mp + 2) \div 5 + d - 1
      doe == yoe * 365 + yoe \div 4 - yoe \div 100 + doy
  IN era * 146097 + doe - 719468

\* the civil date <<y, m, d>> of a number of days since the epoch
CivilFromDays(z0) ==
  LET z   == z0 + 719468
      era == z \div 146097
      doe == z - era * 146097
      yoe == (doe - doe \div 1460 + doe \div 36524 - doe \div 146096) \div 365
      doy == doe - (365 * yoe + yoe \div 4 - yoe \div 100)
      mp  == (5 * doy + 2) \div 153
      d   == doy - (153 * mp + 2) \div 5 + 1
      m   == IF mp < 10 THEN mp + 3 ELSE mp - 9
      y   == yoe + era * 400
  IN <<IF m <= 2 THEN y + 1 ELSE y, m, d>>

\* the time value of an Invalid Date
InvalidTime == 0 - 1

IsDateFormat(s) ==
  /\ Len(s) = 10
  /\ s[5] = "-" /\ s[8] = "-"
  /\ \A i \in {1, 2, 3, 4, 6, 7, 9, 10} : s[i] \in Digits

DaysInMonth(y, m) ==
  IF m = 2
  THEN IF (y % 4 = 0 /\ y % 100 # 0) \/ y % 400 = 0 THEN 29 ELSE 28
  ELSE IF m \in {4, 6, 9, 11} THEN 30 ELSE 31

\* new Date(s).getTime() for a date-only ISO string YYYY-MM-DD (midnight UTC);
\* NaN for a string that is no date
DateParse(s) ==
  IF ~IsDateFormat(s) THEN InvalidTime
  ELSE LET y == DigitsToNat(SubSeq(s, 1, 4))
           m == DigitsToNat(SubSeq(s, 6, 7))
           d == DigitsToNat(SubSeq(s, 9, 10))
       IN IF m \in 1..12 /\ d \in 1..DaysInMonth(y, m)
          THEN DaysFromCivil(y, m, d) * TicksPerDay
          ELSE InvalidTime

\* luxon startOf('day'), endOf('day'), startOf('week'), startOf('month')
StartOfDay(t) == t - (t % TicksPerDay)
EndOfDay(t) == StartOfDay(t) + TicksPerDay - 1
StartOfWeek(t) ==
  LET day == t \div TicksPerDay
  IN (day - ((day + 3) % 7)) * TicksPerDay
StartOfMonth(t) ==
  LET ymd == CivilFromDays(t \div TicksPerDay)
  IN DaysFromCivil(ymd[1], ymd[2], 1) * TicksPerDay

-----------------------------------------------------------------------------
(* The expression tree (LiqeQuery) *)

ImplicitField == <<"ImplicitField", <<>>>>
Field(name) == <<"Field", name>>
LiteralExpression(value) == <<"LiteralExpression", value>>
EmptyExpression == <<"EmptyExpression", <<>>>>
Tag(field, expression) == <<"Tag", field, expression>>
LogicalExpression(operator, left, right) ==
  <<"LogicalExpression", operator, left, right>>
UnaryOperator(operand) == <<"UnaryOperator", operand>>
ParenthesizedExpression(expression) == <<"ParenthesizedExpression", expression>>

-----------------------------------------------------------------------------
(* buildQuery *)

\* the clause a node compiles to when it is no constraint
Null == "<null>"
\* JavaScript's !clause
Falsy(clause) == clause = Null \/ clause = ""

SortBy == {"saved", "updated", "published", "read", "wordscount"}
ASCENDING == "ASC"
DESCENDING == "DESC"
Undefined == "undefined"

\* the lists a call accumulates into, the flag and the clock it reads
Context(ps, ss, os, uf, clk) ==
  [parameters |-> ps, selects |-> ss, orders |-> os, useFolders |-> uf,
   clock |-> clk]

\* the outcome of compiling a node: the clause or the error thrown, and the
\* lists as the node left them
Return(c, clause) ==
  [clause |-> clause, err |-> "", parameters |-> c.parameters,
   selects |-> c.selects, orders |-> c.orders, useFolders |-> c.useFolders,
   clock |-> c.clock]
Throw(c, message) ==
  [clause |-> Null, err |-> message, parameters |-> c.parameters,
   selects |-> c.selects, orders |-> c.orders, useFolders |-> c.useFolders,
   clock |-> c.clock]
ContextOf(r) ==
  Context(r.parameters, r.selects, r.orders, r.useFolders, r.clock)

\* reading the wall clock: the instant read, and the clock afterwards
Now(c) == Head(c.clock)
Tick(c) == [c EXCEPT !.clock = IF Len(@) > 1 THEN Tail(@) ELSE @]

NoColumn == "<throw>"

getColumnName(field) ==
  LET lowerCaseField == Str(toLowerCase(field)) IN
  CASE lowerCaseField = "language" -> "item_language"
    [] lowerCaseField \in {"subscription", "rss"} -> "subscription"
    [] lowerCaseField = "site" -> "site_name"
    [] lowerCaseField = "wordscount" -> "word_count"
    [] lowerCaseField = "readposition" -> "reading_progress_bottom_percent"
    [] lowerCaseField \in {"saved", "read", "updated", "published"} ->
         lowerCaseField \o "_at"
    [] lowerCaseField \in {"author", "title", "description", "note"} ->
         lowerCaseField
    [] lowerCaseField = "highlight" -> "highlight_annotations"
    [] lowerCaseField = "label" -> "label_names"
    [] OTHER -> NoColumn

\* the keyword whose pattern /^keyword(s)?$/i the value matches, or NoColumn
MatchingKeyword(value) ==
  LET v == Str(toLowerCase(value)) IN
  CASE v \in {"highlight", "highlights"} -> <<"h", "i", "g", "h", "l", "i", "g", "h", "t">>
    [] v \in {"label", "labels"} -> <<"l", "a", "b", "e", "l">>
    [] v \in {"subscription", "subscriptions"} ->
         <<"s", "u", "b", "s", "c", "r", "i", "p", "t", "i", "o", "n">>
    [] OTHER -> <<>>

handleNoCase(value, c) ==
  LET matchingKeyword == MatchingKeyword(value) IN
  IF matchingKeyword # <<>>
  THEN LET column == getColumnName(matchingKeyword) IN
       Return(c, "(library_item." \o column \o " IS NULL OR library_item."
                 \o column \o " = '{}')")
  ELSE Throw(c, "Unexpected keyword: " \o Str(value))

\* escapeQueryWithParameters returning the clause without registering
escapeQueryWithParametersUnregistered(sql, parameter, c) ==
  Return(c, sql)

escapeQueryWithParameters(sql, parameter, c) ==
  Return([c EXCEPT !.parameters = Append(@, parameter)], sql)

\* serializeImplicitField naming every rank alias alike
serializeImplicitFieldSharedAlias(expression, c) ==
  IF expression[1] # "LiteralExpression"
  THEN Throw(c, "Expected a literal expression")
  ELSE LET value == expression[2] IN
       IF value = <<>> THEN Return(c, Null)
       ELSE LET param == "implicit_field_" \o ToString(Len(c.parameters))
                alias == "rank_0"
                c1 == [c EXCEPT
                         !.selects = Append(@,
                           [column |-> "ts_rank_cd(library_item.search_tsv, websearch_to_tsquery('english', :"
                                       \o param \o "))",
                            alias |-> alias]),
                         !.orders = Append(@,
                           [by |-> alias, order |-> DESCENDING,
                            nulls |-> Undefined])]
            IN escapeQueryWithParameters(
                 "websearch_to_tsquery('english', :" \o param
                   \o ") @@ library_item.search_tsv",
                 param :> <<"str", Str(value)>>, c1)

\* serializeImplicitField without the test for an empty value
serializeImplicitFieldNoEmptyTest(expression, c) ==
  IF expression[1] # "LiteralExpression"
  THEN Throw(c, "Expected a literal expression")
  ELSE LET value == expression[2]
           param == "implicit_field_" \o ToString(Len(c.parameters))
           alias == "rank_" \o ToString(Len(c.parameters))
           c1 == [c EXCEPT
                    !.selects = Append(@,
                      [column |-> "ts_rank_cd(library_item.search_tsv, websearch_to_tsquery('english', :"
                                  \o param \o "))",
                       alias |-> alias]),
                    !.orders = Append(@,
                      [by |-> alias, order |-> DESCENDING,
                       nulls |-> Undefined])]
       IN escapeQueryWithParameters(
            "websearch_to_tsquery('english', :" \o param
              \o ") @@ library_item.search_tsv",
            param :> <<"str", Str(value)>>, c1)

serializeImplicitField(expression, c) ==
  IF expression[1] # "LiteralExpression"
  THEN Throw(c, "Expected a literal expression")
  ELSE LET value == expression[2] IN
       IF value = <<>> THEN Return(c, Null)
       ELSE LET param == "implicit_field_" \o ToString(Len(c.parameters))
                alias == "rank_" \o ToString(Len(c.parameters))
                c1 == [c EXCEPT
                         !.selects = Append(@,
                           [column |-> "ts_rank_cd(library_item.search_tsv, websearch_to_tsquery('english', :"
                                       \o param \o "))",
                            alias |-> alias]),
                         !.orders = Append(@,
                           [by |-> alias, order |-> DESCENDING,
                            nulls |-> Undefined])]
            IN escapeQueryWithParameters(
                 "websearch_to_tsquery('english', :" \o param
                   \o ") @@ library_item.search_tsv",
                 param :> <<"str", Str(value)>>, c1)

\* case 'in' scoping by folder whether or not folders are in use
caseInAlwaysFolder(value, c) ==
  LET v == Str(toLowerCase(value)) IN
  CASE v = "all" -> Return(c, Null)
    [] v = "archive" -> Return(c, "library_item.archived_at IS NOT NULL")
    [] v = "trash" ->
         Return(c, "library_item.deleted_at >= now() - interval '14 days'")
    [] OTHER ->
         LET sql == "library_item.archived_at IS NULL"
             param == "folder_" \o ToString(Len(c.parameters))
             folderSql == escapeQueryWithParameters(
                            "library_item.folder = :" \o param,
                            param :> <<"str", Str(value)>>, c)
         IN Return(ContextOf(folderSql),
                   "(" \o sql \o " AND " \o folderSql.clause \o ")")

\* case 'in' registering a folder parameter for in:all too
caseInAllBinds(value, c) ==
  LET v == Str(toLowerCase(value)) IN
  CASE v = "all" ->
         Return(ContextOf(escapeQueryWithParameters("",
                  ("folder_" \o ToString(Len(c.parameters)))
                    :> <<"str", Str(value)>>, c)),
                Null)
    [] v = "archive" -> Return(c, "library_item.archived_at IS NOT NULL")
    [] v = "trash" ->
         Return(c, "library_item.deleted_at >= now() - interval '14 days'")
    [] OTHER ->
         LET sql == "library_item.archived_at IS NULL" IN
         IF c.useFolders
         THEN LET param == "folder_" \o ToString(Len(c.parameters))
                  folderSql == escapeQueryWithParameters(
                                 "library_item.folder = :" \o param,
                                 param :> <<"str", Str(value)>>, c)
              IN Return(ContextOf(folderSql),
                        "(" \o sql \o " AND " \o folderSql.clause \o ")")
         ELSE Return(c, sql)

\* case 'in'
caseIn(value, c) ==
  LET v == Str(toLowerCase(value)) IN
  CASE v = "all" -> Return(c, Null)
    [] v = "archive" -> Return(c, "library_item.archived_at IS NOT NULL")
    [] v = "trash" ->
         Return(c, "library_item.deleted_at >= now() - interval '14 days'")
    [] OTHER ->
         LET sql == "library_item.archived_at IS NULL" IN
         IF c.useFolders
         THEN LET param == "folder_" \o ToString(Len(c.parameters))
                  folderSql == escapeQueryWithParameters(
                                 "library_item.folder = :" \o param,
                                 param :> <<"str", Str(value)>>, c)
              IN Return(ContextOf(folderSql),
                        "(" \o sql \o " AND " \o folderSql.clause \o ")")
         ELSE Return(c, sql)

\* case 'is'
caseIs(value, c) ==
  LET v == Str(toLowerCase(value)) IN
  CASE v = "read" ->
         Return(c, "library_item.reading_progress_bottom_percent > 98")
    [] v = "reading" ->
         Return(c, "library_item.reading_progress_bottom_percent BETWEEN 2 AND 98")
    [] v = "unread" ->
         Return(c, "library_item.reading_progress_bottom_percent < 2")
    [] OTHER -> Throw(c, "Unexpected keyword: " \o Str(value))

\* caseType writing the value into the SQL text instead of binding it
caseTypeInline(value, c) ==
  Return(c, "LOWER(library_item.item_type) = '" \o Str(toLowerCase(value)) \o "'")

\* case 'type'
caseType(value, c) ==
  LET param == "type_" \o ToString(Len(c.parameters)) IN
  escapeQueryWithParameters("LOWER(library_item.item_type) = :" \o param,
                            param :> <<"str", Str(toLowerCase(value))>>, c)

\* String.prototype.replace('*', '%'): the first star only
replaceFirstStar(s) ==
  [i \in 1..Len(s) |->
     IF s[i] = "*" /\ \A j \in 1..(i - 1) : s[j] # "*" THEN "%" ELSE s[i]]

\* labelClause replacing only the first star of a label
labelClauseFirstStar(label, c) ==
  LET param == "label_" \o ToString(Len(c.parameters)) IN
  IF includes(label, "*")
  THEN escapeQueryWithParameters(
         "exists (select 1 from unnest(array_cat(library_item.label_names, library_item.highlight_labels)::text[]) as label where label ILIKE :"
           \o param \o ")",
         param :> <<"str", Str(replaceFirstStar(label))>>, c)
  ELSE escapeQueryWithParameters(
         ":" \o param
           \o " = ANY(lower(array_cat(library_item.label_names, library_item.highlight_labels)::text)::text[])",
         param :> <<"str", Str(label)>>, c)

\* labelClause naming every label parameter alike, without the count of the
\* parameters bound so far
labelClauseSameName(label, c) ==
  LET param == "label" IN
  IF includes(label, "*")
  THEN escapeQueryWithParameters(
         "exists (select 1 from unnest(array_cat(library_item.label_names, library_item.highlight_labels)::text[]) as label where label ILIKE :"
           \o param \o ")",
         param :> <<"str", Str(replaceStars(label))>>, c)
  ELSE escapeQueryWithParameters(
         ":" \o param
           \o " = ANY(lower(array_cat(library_item.label_names, library_item.highlight_labels)::text)::text[])",
         param :> <<"str", Str(label)>>, c)

\* the callback of labels.map: one clause and one parameter per label
labelClause(label, c) ==
  LET param == "label_" \o ToString(Len(c.parameters))
      hasWildcard == includes(label, "*")
  IN IF hasWildcard
     THEN escapeQueryWithParameters(
            "exists (select 1 from unnest(array_cat(library_item.label_names, library_item.highlight_labels)::text[]) as label where label ILIKE :"
              \o param \o ")",
            param :> <<"str", Str(replaceStars(label))>>, c)
     ELSE escapeQueryWithParameters(
            ":" \o param
              \o " = ANY(lower(array_cat(library_item.label_names, library_item.highlight_labels)::text)::text[])",
            param :> <<"str", Str(label)>>, c)

\* labels.map(...): the clauses in order, and the context after the last one
RECURSIVE mapLabels(_, _)
mapLabels(labels, c) ==
  IF labels = <<>> THEN [clauses |-> <<>>, c |-> c]
  ELSE LET first == labelClause(Head(labels), c)
           rest  == mapLabels(Tail(labels), ContextOf(first))
       IN [clauses |-> <<first.clause>> \o rest.clauses, c |-> rest.c]

\* case 'label'
caseLabel(value, c) ==
  LET labels == split(toLowerCase(value), <<",">>)
      mapped == mapLabels(labels, c)
  IN Return(mapped.c, "(" \o join(mapped.clauses, " OR ") \o ")")

\* caseSort returning the ordered column as a clause of the predicate
caseSortAsFilter(value, c) ==
  LET parts == split(toLowerCase(value), <<"-">>)
      sort == parts[1]
      sortOrder == IF Len(parts) >= 2 THEN Str(parts[2]) ELSE Undefined
  IN IF Str(sort) \notin SortBy THEN Return(c, Null)
     ELSE LET column == getColumnName(sort)
              order == IF sortOrder = "asc" THEN ASCENDING ELSE DESCENDING
              nulls == IF order = ASCENDING THEN "NULLS FIRST" ELSE "NULLS LAST"
          IN Return([c EXCEPT !.orders = Append(@,
                       [by |-> "library_item." \o column, order |-> order,
                        nulls |-> nulls])],
                    "library_item." \o column \o " IS NOT NULL")

\* caseSort with the nulls policy of the two orders exchanged
caseSortNullsSwapped(value, c) ==
  LET parts == split(toLowerCase(value), <<"-">>)
      sort == parts[1]
      sortOrder == IF Len(parts) >= 2 THEN Str(parts[2]) ELSE Undefined
  IN IF Str(sort) \notin SortBy THEN Return(c, Null)
     ELSE LET column == getColumnName(sort)
              order == IF sortOrder = "asc" THEN ASCENDING ELSE DESCENDING
              nulls == IF order = ASCENDING THEN "NULLS LAST" ELSE "NULLS FIRST"
          IN Return([c EXCEPT !.orders = Append(@,
                       [by |-> "library_item." \o column, order |-> order,
                        nulls |-> nulls])],
                    Null)

\* a sort directive that replaces the keys added before it
caseSortReplacing(value, c) ==
  LET parts == split(toLowerCase(value), <<"-">>)
      sort == parts[1]
      sortOrder == IF Len(parts) >= 2 THEN Str(parts[2]) ELSE Undefined
  IN IF Str(sort) \notin SortBy THEN Return(c, Null)
     ELSE LET column == getColumnName(sort)
              order == IF sortOrder = "asc" THEN ASCENDING ELSE DESCENDING
              nulls == IF order = ASCENDING THEN "NULLS FIRST" ELSE "NULLS LAST"
          IN Return([c EXCEPT !.orders =
                       <<[by |-> "library_item." \o column, order |-> order,
                          nulls |-> nulls]>>],
                    Null)

\* case 'sort'
caseSort(value, c) ==
  LET parts == split(toLowerCase(value), <<"-">>)
      sort == parts[1]
      sortOrder == IF Len(parts) >= 2 THEN Str(parts[2]) ELSE Undefined
  IN IF Str(sort) \notin SortBy THEN Return(c, Null)
     ELSE LET column == getColumnName(sort)
              order == IF sortOrder = "asc" THEN ASCENDING ELSE DESCENDING
              nulls == IF order = ASCENDING THEN "NULLS FIRST" ELSE "NULLS LAST"
          IN Return([c EXCEPT !.orders = Append(@,
                       [by |-> "library_item." \o column, order |-> order,
                        nulls |-> nulls])],
                    Null)

\* a Date | undefined variable
NoDate == [defined |-> FALSE, time |-> 0]
SomeDate(t) == [defined |-> TRUE, time |-> t]

\* the switch on the value of a date field: the dates it sets, the error it
\* throws, and the context after its reads of the clock
dateFilter(value, c) ==
  LET v == Str(toLowerCase(value)) IN
  CASE v = "today" ->
         [err |-> "", startDate |-> SomeDate(StartOfDay(Now(c))),
          endDate |-> NoDate, c |-> Tick(c)]
    [] v = "yesterday" ->
         LET yesterday == Now(c) - TicksPerDay IN
         [err |-> "", startDate |-> SomeDate(StartOfDay(yesterday)),
          endDate |-> SomeDate(EndOfDay(yesterday)), c |-> Tick(c)]
    [] v = "this week" ->
         [err |-> "", startDate |-> SomeDate(StartOfWeek(Now(c))),
          endDate |-> NoDate, c |-> Tick(c)]
    [] v = "this month" ->
         [err |-> "", startDate |-> SomeDate(StartOfMonth(Now(c))),
          endDate |-> NoDate, c |-> Tick(c)]
    [] OTHER ->
         LET parts == split(value, <<".", ".">>)
             start == parts[1]
             hasStart == start # <<>> /\ start # <<"*">>
             hasEnd == Len(parts) >= 2 /\ parts[2] # <<>> /\ parts[2] # <<"*">>
             startTime == DateParse(start)
             endTime == DateParse(parts[2])
         IN IF hasStart /\ startTime = InvalidTime
            THEN [err |-> "Invalid start date", startDate |-> NoDate,
                  endDate |-> NoDate, c |-> c]
            ELSE IF hasEnd /\ endTime = InvalidTime
            THEN [err |-> "Invalid end date", startDate |-> NoDate,
                  endDate |-> NoDate, c |-> c]
            ELSE [err |-> "",
                  startDate |-> IF hasStart THEN SomeDate(startTime) ELSE NoDate,
                  endDate |-> IF hasEnd THEN SomeDate(endTime) ELSE NoDate,
                  c |-> c]

\* caseDate with the epoch as the default of a missing end date
caseDateEndEpoch(name, value, c) ==
  LET f == dateFilter(value, c) IN
  IF f.err # "" THEN Throw(f.c, f.err)
  ELSE LET startParam == Str(name) \o "_start_" \o ToString(Len(c.parameters))
           endParam == Str(name) \o "_end_" \o ToString(Len(c.parameters))
           startValue == IF f.startDate.defined THEN f.startDate.time ELSE Epoch
           endValue == IF f.endDate.defined THEN f.endDate.time ELSE Epoch
       IN escapeQueryWithParameters(
            "library_item." \o Str(name) \o "_at BETWEEN :" \o startParam
              \o " AND :" \o endParam,
            (startParam :> <<"date", startValue>>)
              @@ (endParam :> <<"date", endValue>>),
            f.c)

\* case 'saved', 'read', 'updated', 'published'
caseDate(name, value, c) ==
  LET f == dateFilter(value, c) IN
  IF f.err # "" THEN Throw(f.c, f.err)
  ELSE LET startParam == Str(name) \o "_start_" \o ToString(Len(c.parameters))
           endParam == Str(name) \o "_end_" \o ToString(Len(c.parameters))
           startValue == IF f.startDate.defined THEN f.startDate.time ELSE Epoch
           endValue == IF f.endDate.defined THEN f.endDate.time ELSE Now(f.c)
           c2 == IF f.endDate.defined THEN f.c ELSE Tick(f.c)
       IN escapeQueryWithParameters(
            "library_item." \o Str(name) \o "_at BETWEEN :" \o startParam
              \o " AND :" \o endParam,
            (startParam :> <<"date", startValue>>)
              @@ (endParam :> <<"date", endValue>>),
            c2)

\* case 'has' returning the clause of 'no' as it is
caseHasUnnegated(value, c) == handleNoCase(value, c)

\* case 'has'
caseHas(value, c) ==
  LET no == handleNoCase(value, c) IN
  IF no.err # "" THEN no
  ELSE Return(c, "NOT (" \o no.clause \o ")")

\* case 'subscription', 'rss', 'language'
caseTerm(name, value, c) ==
  LET columnName == getColumnName(name)
      param == "term_" \o Str(name) \o "_" \o ToString(Len(c.parameters))
  IN escapeQueryWithParameters(
       "library_item." \o columnName \o " = :" \o param,
       param :> <<"str", Str(value)>>, c)

\* case 'author', 'title', 'description', 'note', 'site'
caseMatch(name, value, c) ==
  LET columnName == getColumnName(name)
      param == "match_" \o Str(name) \o "_" \o ToString(Len(c.parameters))
      wildcardParam == "match_" \o Str(name) \o "_wildcard_"
                         \o ToString(Len(c.parameters))
  IN escapeQueryWithParameters(
       "(websearch_to_tsquery('english', :" \o param \o ") @@ library_item."
         \o columnName \o "_tsv OR library_item." \o columnName \o " ILIKE :"
         \o wildcardParam \o ")",
       (param :> <<"str", Str(value)>>)
         @@ (wildcardParam :> <<"str", "%" \o Str(value) \o "%">>),
       c)

\* case 'includes'
caseIncludes(value, c) ==
  LET ids == split(value, <<",">>) IN
  IF Len(ids) = 0 THEN Throw(c, "Expected ids")
  ELSE LET param == "includes_" \o ToString(Len(c.parameters)) IN
       escapeQueryWithParameters(
         "library_item.id = ANY(:" \o param \o ")",
         param :> <<"list", [i \in 1..Len(ids) |-> Str(ids[i])]>>, c)

\* case 'recommendedby'
caseRecommendedBy(value, c) ==
  LET param == "recommendedBy_" \o ToString(Len(c.parameters)) IN
  IF value = <<"*">>
  THEN Return(c, "library_item.recommender_names <> '{}'")
  ELSE escapeQueryWithParameters(
         ":" \o param \o " = ANY(lower(library_item.recommender_names::text)::text[])",
         param :> <<"str", Str(toLowerCase(value))>>, c)

\* the first match of /([<>]=?)/ in value: <<position, length>>, or <<0, 0>>
operatorMatch(value) ==
  LET isOp(i) == value[i] \in {"<", ">"} IN
  IF \E i \in 1..Len(value) : isOp(i)
  THEN LET i == CHOOSE k \in 1..Len(value) :
                  isOp(k) /\ \A j \in 1..(k - 1) : ~isOp(j)
       IN <<i, IF i < Len(value) /\ value[i + 1] = "=" THEN 2 ELSE 1>>
  ELSE <<0, 0>>

\* case 'readposition', 'wordscount'
caseRange(name, value, c) ==
  LET column == getColumnName(name)
      m == operatorMatch(value)
  IN IF m[1] = 0 THEN Throw(c, "Expected operator")
     ELSE LET operator == Str(SubSeq(value, m[1], m[1] + m[2] - 1))
              newValue == SubSeq(value, 1, m[1] - 1)
                            \o SubSeq(value, m[1] + m[2], Len(value))
              param == "range_" \o Str(name) \o "_" \o ToString(Len(c.parameters))
          IN escapeQueryWithParameters(
               "library_item." \o column \o " " \o operator \o " :" \o param,
               param :> parseInt(newValue), c)

\* caseDefault searching for the value alone, without the field name
caseDefaultValueOnly(name, value, c) ==
  serializeImplicitField(LiteralExpression(value), c)

\* default: an unknown field is an implicit field with '<field>:<value>'
caseDefault(name, value, c) ==
  serializeImplicitField(LiteralExpression(name \o <<":">> \o value), c)

serializeTagExpression(ast, c) ==
  IF ast[1] # "Tag" THEN Throw(c, "Expected a tag expression")
  ELSE LET field == ast[2]
           expression == ast[3]
       IN
       IF field[1] = "ImplicitField"
       THEN serializeImplicitField(expression, c)
       ELSE IF expression[1] # "LiteralExpression" THEN Return(c, Null)
       ELSE LET value == expression[2]
                name == field[2]
                keyword == Str(toLowerCase(name))
            IN
            IF value = <<>> THEN Return(c, Null)
            ELSE CASE keyword = "in" -> caseIn(value, c)
                   [] keyword = "is" -> caseIs(value, c)
                   [] keyword = "type" -> caseType(value, c)
                   [] keyword = "label" -> caseLabel(value, c)
                   [] keyword = "sort" -> caseSort(value, c)
                   [] keyword = "has" -> caseHas(value, c)
                   [] keyword \in {"saved", "read", "updated", "published"} ->
                        caseDate(name, value, c)
                   [] keyword \in {"subscription", "rss", "language"} ->
                        caseTerm(name, value, c)
                   [] keyword \in {"author", "title", "description", "note",
                                   "site"} ->
                        caseMatch(name, value, c)
                   [] keyword = "includes" -> caseIncludes(value, c)
                   [] keyword = "recommendedby" -> caseRecommendedBy(value, c)
                   [] keyword = "no" -> handleNoCase(value, c)
                   [] keyword \in {"use", "mode", "event"} -> Return(c, Null)
                   [] keyword \in {"readposition", "wordscount"} ->
                        caseRange(name, value, c)
                   [] OTHER -> caseDefault(name, value, c)

\* combine dropping the clause that is left when the other operand is null
combineDropsOperand(operator, left, right) ==
  IF Falsy(left.clause) \/ Falsy(right.clause) THEN Return(ContextOf(right), Null)
  ELSE Return(ContextOf(right),
              left.clause \o " " \o operator \o " " \o right.clause)

\* the result for a LogicalExpression from the results of its operands
combine(operator, left, right) ==
  IF Falsy(left.clause) /\ Falsy(right.clause) THEN Return(ContextOf(right), Null)
  ELSE IF Falsy(left.clause) THEN Return(ContextOf(right), right.clause)
  ELSE IF Falsy(right.clause) THEN Return(ContextOf(right), left.clause)
  ELSE Return(ContextOf(right),
              left.clause \o " " \o operator \o " " \o right.clause)

\* the result for a UnaryOperator from the result of its operand
negate(serialized) ==
  IF Falsy(serialized.clause) THEN Return(ContextOf(serialized), Null)
  ELSE Return(ContextOf(serialized), "NOT " \o serialized.clause)

\* the result for a ParenthesizedExpression from the result of its expression
parenthesize(serialized) ==
  IF Falsy(serialized.clause) THEN Return(ContextOf(serialized), Null)
  ELSE Return(ContextOf(serialized), "(" \o serialized.clause \o ")")

\* serialize catching what the right operand throws and keeping the left clause
RECURSIVE serializeCatching(_, _)
serializeCatching(ast, c) ==
  CASE ast[1] = "Tag" -> serializeTagExpression(ast, c)
    [] ast[1] = "LogicalExpression" ->
         IF ast[2] \notin {"AND", "OR"} THEN Throw(c, "Unexpected operator")
         ELSE LET left == serializeCatching(ast[3], c) IN
              IF left.err # "" THEN left
              ELSE LET right == serializeCatching(ast[4], ContextOf(left)) IN
                   IF right.err # "" THEN left
                   ELSE combine(ast[2], left, right)
    [] ast[1] = "UnaryOperator" ->
         LET serialized == serializeCatching(ast[2], c) IN
         IF serialized.err # "" THEN serialized ELSE negate(serialized)
    [] ast[1] = "ParenthesizedExpression" ->
         LET serialized == serializeCatching(ast[2], c) IN
         IF serialized.err # "" THEN serialized ELSE parenthesize(serialized)
    [] OTHER -> Return(c, Null)

\* an exception thrown by an operand leaves the caller at once
RECURSIVE serialize(_, _)
serialize(ast, c) ==
  CASE ast[1] = "Tag" -> serializeTagExpression(ast, c)
    [] ast[1] = "LogicalExpression" ->
         IF ast[2] \notin {"AND", "OR"} THEN Throw(c, "Unexpected operator")
         ELSE LET left == serialize(ast[3], c) IN
              IF left.err # "" THEN left
              ELSE LET right == serialize(ast[4], ContextOf(left)) IN
                   IF right.err # "" THEN right
                   ELSE combine(ast[2], left, right)
    [] ast[1] = "UnaryOperator" ->
         LET serialized == serialize(ast[2], c) IN
         IF serialized.err # "" THEN serialized ELSE negate(serialized)
    [] ast[1] = "ParenthesizedExpression" ->
         LET serialized == serialize(ast[2], c) IN
         IF serialized.err # "" THEN serialized ELSE parenthesize(serialized)
    [] OTHER -> Return(c, Null)

buildQuery(ast, ps, ss, os, uf, clk) == serialize(ast, Context(ps, ss, os, uf, clk))

-----------------------------------------------------------------------------
(* searchLibraryItems *)

DefaultOrder ==
  [by |-> "library_item.saved_at", order |-> DESCENDING, nulls |-> "NULLS LAST"]

\* the columns of library_item selected before the query is compiled
BaseSelects ==
  <<[column |-> "library_item.id", alias |-> Undefined],
    [column |-> "library_item.savedAt", alias |-> Undefined]>>

\* paramtersToObject: the entries merged, a later binding of a name replacing
\* an earlier one
RECURSIVE paramtersToObject(_)
paramtersToObject(ps) ==
  IF ps = <<>> THEN <<>>
  ELSE LET a == paramtersToObject(SubSeq(ps, 1, Len(ps) - 1))
           b == ps[Len(ps)]
       IN [n \in DOMAIN a \cup DOMAIN b |-> IF n \in DOMAIN b THEN b[n] ELSE a[n]]

\* addDefaultOrder adding the default key only to an empty order list
addDefaultOrderWhenEmpty(os) ==
  IF os # <<>> THEN os ELSE Append(os, DefaultOrder)

\* the order list as it is handed to the query builder
addDefaultOrder(os) ==
  IF \E i \in 1..Len(os) : os[i].by = "library_item.saved_at"
  THEN os
  ELSE Append(os, DefaultOrder)

\* the query, the lists and the error of a search; ast is NoQuery when
\* args.query is empty
NoQuery == <<"NoQuery">>
searchLibraryItems(ast, uf, clk) ==
  Let(IF ast = NoQuery
      THEN Return(Context(<<>>, BaseSelects, <<>>, uf, clk), Null)
      ELSE buildQuery(ast, <<>>, BaseSelects, <<>>, uf, clk),
      LAMBDA built :
        IF built.err # "" THEN built
        ELSE [built EXCEPT !.orders = addDefaultOrder(@)])

-----------------------------------------------------------------------------
(* Inputs: field names and tag values, as character sequences *)

f_in == <<"i", "n">>
f_is == <<"i", "s">>
f_type == <<"t", "y", "p", "e">>
f_label == <<"l", "a", "b", "e", "l">>
f_sort == <<"s", "o", "r", "t">>
f_has == <<"h", "a", "s">>
f_no == <<"n", "o">>
f_saved == <<"s", "a", "v", "e", "d">>
f_read == <<"r", "e", "a", "d">>
f_updated == <<"u", "p", "d", "a", "t", "e", "d">>
f_published == <<"p", "u", "b", "l", "i", "s", "h", "e", "d">>
f_rss == <<"r", "s", "s">>
f_language == <<"l", "a", "n", "g", "u", "a", "g", "e">>
f_title == <<"t", "i", "t", "l", "e">>
f_site == <<"s", "i", "t", "e">>
f_includes == <<"i", "n", "c", "l", "u", "d", "e", "s">>
f_recommendedby == <<"r", "e", "c", "o", "m", "m", "e", "n", "d", "e", "d", "b", "y">>
f_use == <<"u", "s", "e">>
f_mode == <<"m", "o", "d", "e">>
f_event == <<"e", "v", "e", "n", "t">>
f_wordscount == <<"w", "o", "r", "d", "s", "c", "o", "u", "n", "t">>
f_readposition == <<"r", "e", "a", "d", "p", "o", "s", "i", "t", "i", "o", "n">>
f_bogus == <<"b", "o", "g", "u", "s">>
f_Saved == <<"S", "a", "v", "e", "d">>
f_RSS == <<"R", "S", "S">>
f_Title == <<"T", "i", "t", "l", "e">>
f_LABEL == <<"L", "A", "B", "E", "L">>
v_empty == <<>>
v_foo == <<"f", "o", "o">>
v_Foo == <<"F", "o", "o">>
v_bar == <<"b", "a", "r">>
v_fooStar == <<"f", "o", "o", "*">>
v_AStarBStar == <<"A", "*", "b", "*">>
v_fooStarBar == <<"f", "o", "o", "*", ",", "b", "a", "r">>
v_star == <<"*">>
v_all == <<"a", "l", "l">>
v_All == <<"A", "L", "L">>
v_archive == <<"a", "r", "c", "h", "i", "v", "e">>
v_trash == <<"t", "r", "a", "s", "h">>
v_inbox == <<"i", "n", "b", "o", "x">>
v_following == <<"f", "o", "l", "l", "o", "w", "i", "n", "g">>
v_readV == <<"r", "e", "a", "d">>
v_reading == <<"r", "e", "a", "d", "i", "n", "g">>
v_unread == <<"u", "n", "r", "e", "a", "d">>
v_Unread == <<"U", "N", "R", "E", "A", "D">>
v_article == <<"a", "r", "t", "i", "c", "l", "e">>
v_File == <<"F", "I", "L", "E">>
v_highlight == <<"h", "i", "g", "h", "l", "i", "g", "h", "t">>
v_highlights == <<"h", "i", "g", "h", "l", "i", "g", "h", "t", "s">>
v_Labels == <<"L", "a", "b", "e", "l", "s">>
v_labelV == <<"l", "a", "b", "e", "l">>
v_subscriptions == <<"s", "u", "b", "s", "c", "r", "i", "p", "t", "i", "o", "n", "s">>
v_Subscription == <<"S", "u", "b", "s", "c", "r", "i", "p", "t", "i", "o", "n">>
v_saved == <<"s", "a", "v", "e", "d">>
v_updated == <<"u", "p", "d", "a", "t", "e", "d">>
v_published == <<"p", "u", "b", "l", "i", "s", "h", "e", "d">>
v_wordscount == <<"w", "o", "r", "d", "s", "c", "o", "u", "n", "t">>
v_titleV == <<"t", "i", "t", "l", "e">>
v_SAVED == <<"S", "A", "V", "E", "D">>
v_asc == <<"a", "s", "c">>
v_desc == <<"d", "e", "s", "c">>
v_ASC == <<"A", "S", "C">>
v_up == <<"u", "p">>
v_jan1 == <<"2", "0", "2", "3", "-", "0", "1", "-", "0", "1">>
v_jan31 == <<"2", "0", "2", "3", "-", "0", "1", "-", "3", "1">>
v_bad == <<"b", "a", "d">>
v_month13 == <<"2", "0", "2", "3", "-", "1", "3", "-", "0", "1">>
v_today == <<"t", "o", "d", "a", "y">>
v_Today == <<"T", "o", "d", "a", "y">>
v_yesterday == <<"y", "e", "s", "t", "e", "r", "d", "a", "y">>
v_thisWeek == <<"t", "h", "i", "s", " ", "w", "e", "e", "k">>
v_thisMonth == <<"t", "h", "i", "s", " ", "m", "o", "n", "t", "h">>
v_gt100 == <<">", "1", "0", "0">>
v_le5 == <<"<", "=", "5">>
v_100 == <<"1", "0", "0">>
v_ge == <<">", "=">>
v_5lt7 == <<"5", "<", "7">>
v_ids == <<"a", ",", "b">>
v_a == <<"a">>

-----------------------------------------------------------------------------
(* Inputs: tags and expression trees *)

Lit(value) == LiteralExpression(value)

\* one tag of each kind of outcome: clauses with one, two and several
\* parameters, null-producing tags, sort directives and tags that throw
TreeLeaves ==
  { Tag(ImplicitField, Lit(v_foo)),
    Tag(ImplicitField, Lit(v_empty)),
    Tag(Field(f_label), Lit(v_fooStarBar)),
    Tag(Field(f_label), Lit(v_bar)),
    Tag(Field(f_label), Lit(v_empty)),
    Tag(Field(f_sort), Lit(v_saved \o <<"-">> \o v_asc)),
    Tag(Field(f_sort), Lit(v_updated \o <<"-">> \o v_desc)),
    Tag(Field(f_saved), Lit(v_jan1 \o <<".", ".">> \o v_jan31)),
    Tag(Field(f_saved), Lit(v_bad \o <<".", ".">> \o v_star)),
    Tag(Field(f_title), Lit(v_foo)),
    Tag(Field(f_is), Lit(v_bad)),
    Tag(Field(f_in), Lit(v_inbox)),
    Tag(Field(f_in), Lit(v_all)),
    Tag(Field(f_wordscount), Lit(v_100)),
    Tag(Field(f_bogus), Lit(v_foo)) }

\* the trees with exactly n nodes over a set of leaves
RECURSIVE TreesOf(_, _)
TreesOf(leaves, n) ==
  IF n = 1 THEN leaves
  ELSE { UnaryOperator(t) : t \in TreesOf(leaves, n - 1) }
       \cup { ParenthesizedExpression(t) : t \in TreesOf(leaves, n - 1) }
       \cup UNION { { LogicalExpression(op, l, r) :
                        op \in {"AND", "OR"},
                        l \in TreesOf(leaves, k),
                        r \in TreesOf(leaves, n - 1 - k) } : k \in 1..(n - 2) }

Trees(leaves) == UNION { TreesOf(leaves, n) : n \in 1..MaxNodes }

\* the clock readings of one request: the instants its successive reads of
\* the clock return, from the last tick of 14 February 2023 on
ClockBase == DaysFromCivil(2023, 2, 15) * TicksPerDay - 1
Instants == ClockBase..(ClockBase + ClockSpan)
Clocks == { ck \in { <<t1, t2>> : t1 \in Instants, t2 \in Instants } :
            ck[1] <= ck[2] }


\* the values of one comma-separated list: 1..n elements joined by commas
RECURSIVE Lists(_, _)
Lists(elems, n) ==
  IF n = 1 THEN elems
  ELSE Lists(elems, n - 1)
       \cup { l \o <<",">> \o e : l \in Lists(elems, n - 1), e \in elems }

LabelElements == {v_fooStar, v_bar, v_AStarBStar, v_empty}
LabelValues == Lists(LabelElements, MaxLabels)

SortFields == {v_saved, v_updated, v_published, v_readV, v_wordscount,
               v_titleV, v_SAVED, v_empty}
SortOrders == {v_asc, v_desc, v_ASC, v_up, v_empty}
SortValues ==
  { f \o <<"-">> \o o : f \in SortFields, o \in SortOrders }
    \cup {v_saved, v_empty, v_updated \o <<"-">> \o v_asc \o <<"-">> \o v_desc}

DateFields == {f_saved, f_read, f_updated, f_published, f_Saved}
DateBounds == {v_empty, v_star, v_jan1, v_jan31, v_bad, v_month13}
DateValues ==
  { a \o <<".", ".">> \o b : a \in DateBounds, b \in DateBounds }
    \cup {v_today, v_Today, v_yesterday, v_thisWeek, v_thisMonth, v_jan1,
          v_bad, v_empty,
          v_jan1 \o <<".", ".">> \o v_jan31 \o <<".", ".">> \o v_bad}

\* every tag the single-tag specification compiles
TagInputs ==
  { Tag(f, Lit(v)) : f \in {Field(f_label), Field(f_LABEL)}, v \in LabelValues }
  \cup { Tag(Field(f_sort), Lit(v)) : v \in SortValues }
  \cup { Tag(Field(f), Lit(v)) : f \in DateFields, v \in DateValues }
  \cup { Tag(Field(f_in), Lit(v)) :
           v \in {v_all, v_All, v_archive, v_trash, v_inbox, v_following, v_empty,
                  v_Foo} }
  \cup { Tag(Field(f_is), Lit(v)) :
           v \in {v_readV, v_reading, v_unread, v_Unread, v_bad} }
  \cup { Tag(Field(f_type), Lit(v)) : v \in {v_article, v_File} }
  \cup { Tag(Field(f), Lit(v)) :
           f \in {f_has, f_no},
           v \in {v_highlight, v_highlights, v_Labels, v_labelV,
                  v_subscriptions, v_Subscription, v_bad, v_empty} }
  \cup { Tag(Field(f), Lit(v)) :
           f \in {f_rss, f_RSS, f_language, f_title, f_Title, f_site},
           v \in {v_foo, v_Foo} }
  \cup { Tag(Field(f_includes), e) : e \in {Lit(v_ids), Lit(v_a), Lit(v_empty),
                                            EmptyExpression} }
  \cup { Tag(Field(f_recommendedby), Lit(v)) : v \in {v_star, v_Foo} }
  \cup { Tag(Field(f), Lit(v_foo)) : f \in {f_use, f_mode, f_event} }
  \cup { Tag(Field(f), Lit(v)) :
           f \in {f_wordscount, f_readposition},
           v \in {v_gt100, v_le5, v_100, v_ge, v_5lt7} }
  \cup { Tag(Field(f_bogus), Lit(v)) : v \in {v_foo, v_bar} }
  \cup { Tag(ImplicitField, e) : e \in {Lit(v_foo), Lit(v_bar), Lit(v_empty),
                                        EmptyExpression} }

\* the parameter list a caller passes that has bound n parameters already,
\* as n type tags compiled before would leave it
RECURSIVE Bound(_)
Bound(n) ==
  IF n = 0 THEN <<>>
  ELSE Append(Bound(n - 1), ("type_" \o ToString(n - 1)) :> <<"str", "article">>)

-----------------------------------------------------------------------------
(* The rows and the locals of batchUpdateLibraryItems                      *)

\* a column without a value
NoTime == 0 - 1
NoRequest == [action |-> "", ast |-> NoQuery, labels |-> <<"none">>,
              args |-> <<"none">>]
NoJob ==
  [pc |-> "idle", run |-> 0, request |-> NoRequest, now |-> NoTime,
   start |-> NoTime, values |-> <<>>, addLabels |-> FALSE, query |-> Null,
   parameters |-> <<>>, count |-> 0, i |-> 0, error |-> ""]
\* null, for a percent or an anchor index that was not supplied
NoValue == 0 - 1

\* the reading progress of an item no call was made for
NoProgress ==
  [stored |-> [top |-> 0, bottom |-> 0, anchor |-> 0, read_at |-> NoTime],
   before |-> [top |-> 0, bottom |-> 0, anchor |-> 0, read_at |-> NoTime],
   request |-> <<>>, returned |-> "none"]

NoHistory ==
  [atStart |-> <<>>, atLoop |-> <<>>, modified |-> <<>>, afterFirst |-> <<>>]

-----------------------------------------------------------------------------
(* The state machine: a request is drawn, then compiled by a direct call   *)
(* of buildQuery or by searchLibraryItems                                  *)

TypeOK ==
  /\ pc \in {"start", "built", "searched", "batch", "progress"}
  /\ useFolders \in BOOLEAN

\* a direct call of buildQuery with the caller's lists
BuildQuery ==
  /\ pc = "start"
  /\ searchQuery # NoQuery
  /\ \E r \in {buildQuery(searchQuery, parameters, selects, orders,
                          useFolders, clock)} :
        /\ parameters' = r.parameters
        /\ selects' = r.selects
        /\ orders' = r.orders
        /\ clock' = r.clock
        /\ query' = r.clause
        /\ error' = r.err
  /\ pc' = "built"
  /\ calls' = calls + 1
  /\ UNCHANGED <<searchQuery, useFolders, entry>>
  /\ UNCHANGED batchVars

\* searchLibraryItems up to the order list handed to the query builder
SearchLibraryItems ==
  /\ pc = "start"
  /\ \E r \in {searchLibraryItems(searchQuery, useFolders, clock)} :
        /\ parameters' = r.parameters
        /\ selects' = r.selects
        /\ orders' = r.orders
        /\ clock' = r.clock
        /\ query' = r.clause
        /\ error' = r.err
  /\ entry' = Context(<<>>, BaseSelects, <<>>, useFolders, clock)
  /\ pc' = "searched"
  /\ calls' = IF searchQuery = NoQuery THEN calls ELSE calls + 1
  /\ UNCHANGED <<searchQuery, useFolders>>
  /\ UNCHANGED batchVars

Next == BuildQuery \/ SearchLibraryItems

InitWith(asts, flags, bounds, clocks) ==
  /\ searchQuery \in asts
  /\ useFolders \in flags
  /\ clock \in clocks
  /\ parameters \in bounds
  /\ selects = <<>>
  /\ orders = <<>>
  /\ query = Null
  /\ error = ""
  /\ pc = "start"
  /\ entry = Context(parameters, selects, orders, useFolders, clock)
  /\ calls = 0
  /\ time = 0
  /\ items = <<>>
  /\ entityLabels = <<>>
  /\ job = NoJob
  /\ jobs = <<>>
  /\ progress = NoProgress
  /\ history = NoHistory

\* a clock that passes midnight between two reads
Midnight == <<ClockBase, ClockBase + 1>>

SortTags == { Tag(Field(f_sort), Lit(v)) : v \in SortValues }

\* expression trees and the sort tags, compiled from empty lists
Init ==
  InitWith(Trees(TreeLeaves) \cup SortTags \cup {NoQuery}, BOOLEAN, {<<>>},
           {Midnight})
Spec == Init /\ [][Next]_vars

\* single tags, compiled after 0..MaxBound parameters
InitTag ==
  InitWith(TagInputs, BOOLEAN, { Bound(n) : n \in 0..MaxBound }, {Midnight})
SpecTag == InitTag /\ [][Next]_vars

\* single tags on date fields, compiled at every clock
InitDate ==
  InitWith({ Tag(Field(f), Lit(v)) : f \in DateFields, v \in DateValues },
           {FALSE}, {<<>>}, Clocks)
SpecDate == InitDate /\ [][Next]_vars

\* the requests compiled one after another
CallInputs ==
  TreeLeaves
    \cup { LogicalExpression("AND", l, Tag(Field(f_label), Lit(v_fooStarBar))) :
             l \in TreeLeaves }

\* the arguments of a call that passes new empty lists
freshArguments(uf) ==
  [parameters |-> <<>>, selects |-> <<>>, orders |-> <<>>, useFolders |-> uf]

\* the default arguments left over from the call before, as they would be
\* if the default values were created once and shared by all calls
defaultArgumentsShared(left) ==
  [parameters |-> left[1], selects |-> left[2], orders |-> left[3],
   useFolders |-> FALSE]

\* the default arguments of a call that passes the tree only: the default
\* expressions are evaluated anew at every call
defaultArguments(left) ==
  [parameters |-> <<>>, selects |-> <<>>, orders |-> <<>>,
   useFolders |-> FALSE]

\* after a call has returned or thrown, the process makes the next call, with
\* new lists or with the defaults
CallAgain ==
  /\ pc = "built"
  /\ calls < MaxCalls
  /\ \E ast \in CallInputs :
     \E a \in { freshArguments(uf) : uf \in BOOLEAN }
                \cup {defaultArguments(<<parameters, selects, orders>>)} :
        /\ searchQuery' = ast
        /\ useFolders' = a.useFolders
        /\ parameters' = a.parameters
        /\ selects' = a.selects
        /\ orders' = a.orders
        /\ clock' = Midnight
        /\ entry' = Context(a.parameters, a.selects, a.orders, a.useFolders,
                            Midnight)
  /\ query' = Null
  /\ error' = ""
  /\ pc' = "start"
  /\ UNCHANGED calls
  /\ UNCHANGED batchVars

NextCalls == BuildQuery \/ CallAgain

InitCalls == InitWith(CallInputs, BOOLEAN, {<<>>}, {Midnight})
SpecCalls == InitCalls /\ [][NextCalls]_vars

\* expression trees from empty lists, and single tags after earlier bindings
\* trees of logical connectives over three tags that compile to clauses
\* without connectives of their own
LogicLeaves ==
  { Tag(Field(f_is), Lit(v_readV)), Tag(Field(f_is), Lit(v_unread)),
    Tag(Field(f_in), Lit(v_inbox)) }
LogicTrees == UNION { TreesOf(LogicLeaves, n) : n \in 1..MaxLogicNodes }
InitLogic == InitWith(LogicTrees, {FALSE}, {<<>>}, {Midnight})
SpecLogic == InitLogic /\ [][Next]_vars

InitAll == Init \/ InitTag
SpecAll == InitAll /\ [][Next]_vars

-----------------------------------------------------------------------------
(* batchUpdateLibraryItems                                                 *)

\* BulkActionType
BulkActionType == {"Archive", "Delete", "AddLabels", "MarkAsRead", "MoveToFolder"}

\* a row of omnivore.library_item: the columns the job reads or writes
LibraryItem(labelNames, bottom, archivedAt, state) ==
  [created_at |-> 0, updated_at |-> 0, label_names |-> labelNames,
   archived_at |-> archivedAt,
   deleted_at |-> NoTime, read_at |-> NoTime, saved_at |-> 0, state |-> state,
   folder |-> "inbox", reading_progress_top_percent |-> bottom,
   reading_progress_bottom_percent |-> bottom]

Label(id, name) == [id |-> id, name |-> name]

\* isFolderArguments: 'folder' in args
isFolderArguments(args) == args[1] = "folder"

\* the switch falling through on an action it does not know
valuesOfLenient(action, now, args) ==
  CASE action = "Archive" ->
         [err |-> "", addLabels |-> FALSE,
          values |-> ("archived_at" :> now) @@ ("state" :> "ARCHIVED")]
    [] action = "Delete" ->
         [err |-> "", addLabels |-> FALSE,
          values |-> ("state" :> "DELETED") @@ ("deleted_at" :> now)]
    [] action = "AddLabels" ->
         [err |-> "", addLabels |-> TRUE, values |-> <<>>]
    [] action = "MarkAsRead" ->
         [err |-> "", addLabels |-> FALSE,
          values |-> ("read_at" :> now)
                       @@ ("reading_progress_top_percent" :> 100)
                       @@ ("reading_progress_bottom_percent" :> 100)]
    [] action = "MoveToFolder" ->
         IF args[1] = "none" \/ ~isFolderArguments(args)
         THEN [err |-> "Invalid arguments", addLabels |-> FALSE, values |-> <<>>]
         ELSE [err |-> "", addLabels |-> FALSE,
               values |-> ("folder" :> args[2]) @@ ("saved_at" :> now)]
    [] OTHER -> [err |-> "", addLabels |-> FALSE, values |-> <<>>]

\* the switch on the action: the column assignments, or the error thrown
valuesOf(action, now, args) ==
  CASE action = "Archive" ->
         [err |-> "", addLabels |-> FALSE,
          values |-> ("archived_at" :> now) @@ ("state" :> "ARCHIVED")]
    [] action = "Delete" ->
         [err |-> "", addLabels |-> FALSE,
          values |-> ("state" :> "DELETED") @@ ("deleted_at" :> now)]
    [] action = "AddLabels" ->
         [err |-> "", addLabels |-> TRUE, values |-> <<>>]
    [] action = "MarkAsRead" ->
         [err |-> "", addLabels |-> FALSE,
          values |-> ("read_at" :> now)
                       @@ ("reading_progress_top_percent" :> 100)
                       @@ ("reading_progress_bottom_percent" :> 100)]
    [] action = "MoveToFolder" ->
         IF args[1] = "none" \/ ~isFolderArguments(args)
         THEN [err |-> "Invalid arguments", addLabels |-> FALSE, values |-> <<>>]
         ELSE [err |-> "", addLabels |-> FALSE,
               values |-> ("folder" :> args[2]) @@ ("saved_at" :> now)]
    [] OTHER ->
         [err |-> "Invalid bulk action", addLabels |-> FALSE, values |-> <<>>]

\* the value bound to a parameter name
ParameterValue(ps, name) ==
  paramtersToObject(ps)[name][2]

\* whether a row satisfies the WHERE clause the query builder was given:
\* the user's rows, narrowed by the compiled predicate when there is one
Satisfies(item, clause, ps) ==
  CASE Falsy(clause) -> TRUE
    [] clause = "library_item.archived_at IS NULL" -> item.archived_at = NoTime
    [] clause = "library_item.reading_progress_bottom_percent < 2" ->
         item.reading_progress_bottom_percent < 2
    [] clause = "(:label_0 = ANY(lower(array_cat(library_item.label_names, library_item.highlight_labels)::text)::text[]))" ->
         \E k \in 1..Len(item.label_names) :
           Str(toLowerCase(item.label_names[k])) = ParameterValue(ps, "label_0")

\* the ids the query builder selects
Matching(rows, clause, ps) ==
  { id \in 1..Len(rows) : Satisfies(rows[id], clause, ps) }

\* the storage stamps a row it mutates with the time of the mutation
touch(item, t) == [item EXCEPT !.updated_at = t]

\* UPDATE ... SET <values> on one row
setValues(item, values) ==
  [col \in DOMAIN item |-> IF col \in DOMAIN values THEN values[col] ELSE item[col]]

\* the loop running once more than the batches need
iterationsInclusive(count) == (count + batchSize - 1) \div batchSize + 1

\* the loop rounding the number of batches down
iterationsFloor(count) == count \div batchSize

\* FOR i IN 0..CEIL(count * 1.0 / batch_size) - 1: the number of iterations
iterations(count) == (count + batchSize - 1) \div batchSize

\* the ids one UPDATE of the loop may take: any batch_size of the matching
\* rows last modified before start, all of them when there are fewer
batches(rows, clause, ps, start) ==
  LET eligible == { id \in Matching(rows, clause, ps) :
                      rows[id].updated_at < start }
  IN IF Cardinality(eligible) <= batchSize THEN {eligible}
     ELSE { b \in SUBSET eligible : Cardinality(b) = batchSize }

\* missingLabels comparing the names as they are written
missingLabelsCaseSensitive(item, labels, id) ==
  LET existingLabel(label) ==
        \E k \in 1..Len(item.label_names) : item.label_names[k] = label.name
      keep == { k \in 1..Len(labels) : ~existingLabel(labels[k]) }
      RECURSIVE filtered(_)
      filtered(k) ==
        IF k > Len(labels) THEN <<>>
        ELSE (IF k \in keep
              THEN <<[labelId |-> labels[k].id, libraryItemId |-> id,
                      name |-> labels[k].name]>>
              ELSE <<>>) \o filtered(k + 1)
  IN filtered(1)

\* the labels of the request an item does not have yet, ignoring case
missingLabels(item, labels, id) ==
  LET existingLabel(label) ==
        \E k \in 1..Len(item.label_names) :
          toLowerCase(item.label_names[k]) = toLowerCase(label.name)
      keep == { k \in 1..Len(labels) : ~existingLabel(labels[k]) }
      RECURSIVE filtered(_)
      filtered(k) ==
        IF k > Len(labels) THEN <<>>
        ELSE (IF k \in keep
              THEN <<[labelId |-> labels[k].id, libraryItemId |-> id,
                      name |-> labels[k].name]>>
              ELSE <<>>) \o filtered(k + 1)
  IN filtered(1)

\* labelsToAdd: libraryItems.flatMap(...)
RECURSIVE labelsToAdd(_, _, _, _)
labelsToAdd(rows, ids, labels, id) ==
  IF id > Len(rows) THEN <<>>
  ELSE (IF id \in ids THEN missingLabels(rows[id], labels, id) ELSE <<>>)
         \o labelsToAdd(rows, ids, labels, id + 1)

\* the rows a user may have when a job starts
ItemKinds ==
  << LibraryItem(<<v_Foo>>, 0, NoTime, "SUCCEEDED"),
     LibraryItem(<<>>, 0, NoTime, "SUCCEEDED"),
     LibraryItem(<<v_bar>>, 100, 0, "ARCHIVED") >>

Tables ==
  { [id \in 1..Len(kinds) |-> ItemKinds[kinds[id]]] :
      kinds \in { k \in UNION { [1..n -> 1..Len(ItemKinds)] : n \in 0..MaxRows } :
                    \A a, b \in DOMAIN k : a < b => k[a] <= k[b] } }

\* the search queries of the requests, parsed
BatchQueries ==
  { Tag(Field(f_label), Lit(v_foo)), Tag(Field(f_is), Lit(v_unread)),
    Tag(Field(f_in), Lit(v_inbox)), Tag(Field(f_in), Lit(v_all)),
    Tag(Field(f_is), Lit(v_bad)), NoQuery }

Request(action, ast, labels, args) ==
  [action |-> action, ast |-> ast, labels |-> labels, args |-> args]

Requests ==
  { Request(action, ast, <<"none">>, <<"none">>) :
      action \in {"Archive", "Delete", "MarkAsRead", "MoveToFolder", "AddLabels",
                  "Bogus"},
      ast \in BatchQueries }
    \cup { Request("MoveToFolder", ast, <<"none">>, args) :
             ast \in BatchQueries, args \in {<<"folder", "later">>, <<"other">>} }
    \cup { Request("AddLabels", ast, <<"some", labels>>, <<"none">>) :
             ast \in BatchQueries,
             labels \in { <<Label(1, v_Foo)>>,
                          <<Label(2, v_foo), Label(3, v_bar)>> } }

Failed(message) == [job EXCEPT !.pc = "failed", !.error = message]

\* the rows when the first run ended
Ended(rows) ==
  [history EXCEPT !.afterFirst = IF job.run = 1 THEN rows ELSE @]

\* batchUpdateLibraryItems up to the transaction: the time of the job, the
\* column assignments of the action and the compiled search query
StartJob(request) ==
  /\ \/ job.pc = "idle"
     \/ job.pc = "done" /\ job.run < MaxRuns /\ request = job.request
  /\ \E v \in {valuesOf(request.action, time, request.args)} :
     \E r \in { IF request.ast = NoQuery
                THEN [err |-> "Search query is required", clause |-> Null,
                      parameters |-> <<>>]
                ELSE buildQuery(request.ast, <<>>, <<>>, <<>>, FALSE, <<time>>) } :
       job' = IF v.err # "" THEN [Failed(v.err) EXCEPT !.request = request]
              ELSE IF r.err # "" THEN [Failed(r.err) EXCEPT !.request = request]
              ELSE [pc |-> "transaction", run |-> job.run + 1,
                    request |-> request, now |-> time, start |-> NoTime,
                    values |-> v.values, addLabels |-> v.addLabels,
                    query |-> r.clause, parameters |-> r.parameters,
                    count |-> 0, i |-> 0, error |-> ""]
  /\ history' = [history EXCEPT !.atStart = items, !.modified = <<>>]
  /\ UNCHANGED <<time, items, entityLabels>>
  /\ UNCHANGED <<compileVars, jobs, progress>>

\* the AddLabels branch: fetch the matching items, save the missing labels
AddLabelsToItems ==
  /\ job.pc = "transaction"
  /\ job.addLabels
  /\ IF job.request.labels[1] = "none"
     THEN /\ job' = Failed("Labels are required for this action")
          /\ UNCHANGED <<entityLabels, history>>
     ELSE /\ entityLabels' =
               entityLabels \o
                 labelsToAdd(items, Matching(items, job.query, job.parameters),
                             job.request.labels[2], 1)
          /\ job' = [job EXCEPT !.pc = "done"]
          /\ history' = Ended(items)
  /\ UNCHANGED <<time, items>>
  /\ UNCHANGED <<compileVars, jobs, progress>>

\* const start = new Date().toISOString()
CaptureStart ==
  /\ job.pc = "transaction"
  /\ ~job.addLabels
  /\ job' = [job EXCEPT !.start = time, !.pc = "sql"]
  /\ UNCHANGED <<time, items, entityLabels, history>>
  /\ UNCHANGED <<compileVars, jobs, progress>>

\* the DO block is entered: the bounds of the FOR loop are evaluated once
EnterLoop ==
  /\ job.pc = "sql"
  /\ \E count \in {Cardinality(Matching(items, job.query, job.parameters))} :
       /\ job' = [job EXCEPT !.count = count, !.i = 0,
                             !.pc = IF iterations(count) = 0 THEN "done"
                                    ELSE "loop"]
       /\ history' = [(IF iterations(count) = 0 THEN Ended(items) ELSE history)
                         EXCEPT !.atLoop = items]
  /\ UNCHANGED <<time, items, entityLabels>>
  /\ UNCHANGED <<compileVars, jobs, progress>>

\* one iteration of the loop: the UPDATE of one batch
UpdateBatch ==
  /\ job.pc = "loop"
  /\ \E batch \in batches(items, job.query, job.parameters, job.start) :
     \E rows \in { [id \in 1..Len(items) |->
                      IF id \in batch
                      THEN touch(setValues(items[id], job.values), time)
                      ELSE items[id]] } :
       /\ items' = rows
       /\ job' = [job EXCEPT !.i = @ + 1,
                             !.pc = IF job.i + 1 = iterations(job.count)
                                    THEN "done" ELSE "loop"]
       /\ history' =
            [(IF job.i + 1 = iterations(job.count) THEN Ended(rows) ELSE history)
               EXCEPT !.modified = Append(@, batch)]
  /\ UNCHANGED <<time, entityLabels>>
  /\ UNCHANGED <<compileVars, jobs, progress>>

\* another request of the user saves a new item while the job runs (one
\* such request per run)
SaveItem ==
  /\ job.pc \in {"transaction", "sql", "loop"}
  /\ Len(items) < MaxRows
  /\ Len(items) = Len(history.atStart)
  /\ items' = Append(items,
       [LibraryItem(<<v_Foo>>, 0, NoTime, "SUCCEEDED")
          EXCEPT !.created_at = time, !.updated_at = time, !.saved_at = time])
  /\ UNCHANGED <<time, entityLabels, job, history>>
  /\ UNCHANGED <<compileVars, jobs, progress>>

\* the wall clock advances: before the transaction has begun, or after
\* the job has ended
Advance ==
  /\ job.pc \in {"transaction", "done"}
  /\ time < MaxTime
  /\ time' = time + 1
  /\ UNCHANGED <<items, entityLabels, job, history>>
  /\ UNCHANGED <<compileVars, jobs, progress>>

\* the label names of an item after the storage has brought label_names up
\* to date with the EntityLabel rows saved for it
reflected(item, id) ==
  LET RECURSIVE names(_, _)
      names(k, acc) ==
        IF k > Len(entityLabels) THEN acc
        ELSE names(k + 1,
               IF /\ entityLabels[k].libraryItemId = id
                  /\ \A n \in 1..Len(acc) : acc[n] # entityLabels[k].name
               THEN Append(acc, entityLabels[k].name) ELSE acc)
  IN [item EXCEPT !.label_names = names(1, @)]

\* label_names follows the saved EntityLabel rows
ReflectLabels ==
  /\ job.pc = "done"
  /\ job.addLabels
  /\ \E rows \in { [id \in 1..Len(items) |-> reflected(items[id], id)] } :
       /\ rows # items
       /\ items' = rows
  /\ UNCHANGED <<time, entityLabels, job, history>>
  /\ UNCHANGED <<compileVars, jobs, progress>>

NextBatch ==
  \/ \E request \in Requests : StartJob(request)
  \/ AddLabelsToItems
  \/ CaptureStart
  \/ EnterLoop
  \/ UpdateBatch
  \/ SaveItem
  \/ Advance
  \/ ReflectLabels

InitBatch ==
  /\ searchQuery = NoQuery
  /\ useFolders = FALSE
  /\ clock = <<0>>
  /\ parameters = <<>>
  /\ selects = <<>>
  /\ orders = <<>>
  /\ query = Null
  /\ error = ""
  /\ pc = "batch"
  /\ entry = Context(<<>>, <<>>, <<>>, FALSE, <<0>>)
  /\ calls = 0
  /\ time = 1
  /\ items \in Tables
  /\ entityLabels = <<>>
  /\ job = NoJob
  /\ jobs = <<>>
  /\ progress = NoProgress
  /\ history = NoHistory

SpecBatch == InitBatch /\ [][NextBatch]_vars

-----------------------------------------------------------------------------
(* Two calls of batchUpdateLibraryItems whose steps interleave *)

JobIds == {1, 2}

\* the requests of the two calls: column assignments that write different
\* columns, over queries whose result sets overlap
SharedRequests ==
  { Request(action, ast, <<"none">>, <<"none">>) :
      action \in {"Archive", "MarkAsRead"},
      ast \in { Tag(Field(f_in), Lit(v_all)), Tag(Field(f_in), Lit(v_inbox)),
               Tag(Field(f_is), Lit(v_unread)) } }
    \cup { Request("MoveToFolder", ast, <<"none">>, <<"folder", "later">>) :
             ast \in { Tag(Field(f_in), Lit(v_all)),
                       Tag(Field(f_in), Lit(v_inbox)) } }

\* a call that has not been made yet
Waiting ==
  [pc |-> "idle", request |-> NoRequest, now |-> NoTime, start |-> NoTime,
   values |-> <<>>, query |-> Null, parameters |-> <<>>, count |-> 0, i |-> 0,
   error |-> "", atStart |-> <<>>]

\* lines 928-977 of one call: the time of the job, the column assignments
\* and the compiled query
begun(request, rows, t) ==
  LET v == valuesOf(request.action, t, request.args)
      r == buildQuery(request.ast, <<>>, <<>>, <<>>, FALSE, <<t>>)
  IN IF v.err # "" \/ r.err # ""
     THEN [Waiting EXCEPT !.pc = "failed", !.request = request,
                          !.error = IF v.err # "" THEN v.err ELSE r.err]
     ELSE [Waiting EXCEPT !.pc = "transaction", !.request = request,
                          !.now = t, !.values = v.values, !.query = r.clause,
                          !.parameters = r.parameters, !.atStart = rows]

\* a call is made; the calls are numbered in the order they are made
Begin(j, request) ==
  /\ jobs[j].pc = "idle"
  /\ \A k \in JobIds : k < j => jobs[k].pc # "idle"
  /\ jobs' = [jobs EXCEPT ![j] = begun(request, items, time)]
  /\ UNCHANGED <<time, items, entityLabels, job, history>>
  /\ UNCHANGED <<compileVars, progress>>

\* const start = new Date().toISOString()
Capture(j) ==
  /\ jobs[j].pc = "transaction"
  /\ jobs' = [jobs EXCEPT ![j].start = time, ![j].pc = "sql"]
  /\ UNCHANGED <<time, items, entityLabels, job, history>>
  /\ UNCHANGED <<compileVars, progress>>

\* the DO block of a call is entered
Enter(j) ==
  /\ jobs[j].pc = "sql"
  /\ \E count \in
       {Cardinality(Matching(items, jobs[j].query, jobs[j].parameters))} :
       jobs' = [jobs EXCEPT ![j].count = count,
                            ![j].pc = IF iterations(count) = 0 THEN "done"
                                      ELSE "loop"]
  /\ UNCHANGED <<time, items, entityLabels, job, history>>
  /\ UNCHANGED <<compileVars, progress>>

\* one iteration of the loop of a call
Update(j) ==
  /\ jobs[j].pc = "loop"
  /\ \E batch \in
       batches(items, jobs[j].query, jobs[j].parameters, jobs[j].start) :
       items' = [id \in 1..Len(items) |->
                   IF id \in batch
                   THEN touch(setValues(items[id], jobs[j].values), time)
                   ELSE items[id]]
  /\ jobs' = [jobs EXCEPT ![j].i = @ + 1,
                          ![j].pc = IF jobs[j].i + 1 = iterations(jobs[j].count)
                                    THEN "done" ELSE "loop"]
  /\ UNCHANGED <<time, entityLabels, job, history>>
  /\ UNCHANGED <<compileVars, progress>>

\* the wall clock advances between the calls
Pass ==
  /\ \E j \in JobIds : jobs[j].pc = "transaction"
  /\ time < MaxTime
  /\ time' = time + 1
  /\ UNCHANGED <<items, entityLabels, job, history, jobs>>
  /\ UNCHANGED <<compileVars, progress>>

NextShared ==
  \/ \E j \in JobIds : \E request \in SharedRequests : Begin(j, request)
  \/ \E j \in JobIds : Capture(j)
  \/ \E j \in JobIds : Enter(j)
  \/ \E j \in JobIds : Update(j)
  \/ Pass

InitShared ==
  /\ searchQuery = NoQuery
  /\ useFolders = FALSE
  /\ clock = <<0>>
  /\ parameters = <<>>
  /\ selects = <<>>
  /\ orders = <<>>
  /\ query = Null
  /\ error = ""
  /\ pc = "batch"
  /\ entry = Context(<<>>, <<>>, <<>>, FALSE, <<0>>)
  /\ calls = 0
  /\ time = 1
  /\ items \in Tables
  /\ entityLabels = <<>>
  /\ job = NoJob
  /\ history = NoHistory
  /\ jobs = [j \in JobIds |-> Waiting]
  /\ progress = NoProgress

SpecShared == InitShared /\ [][NextShared]_vars

-----------------------------------------------------------------------------
(* updateLibraryItemReadingProgress *)

\* column < $n in SQL: not true when $n is null
lessThan(column, value) == value # NoValue /\ column < value

\* CASE WHEN <compared> < $n THEN $n WHEN $n = 0 THEN 0 ELSE <kept> END
caseWhen(compared, kept, value) ==
  IF lessThan(compared, value) THEN value
  ELSE IF value = 0 THEN 0
  ELSE kept

\* the CASE of reading_progress_highest_read_anchor: it compares
\* reading_progress_top_percent with the anchor index
anchorCase(row, anchorIndex) == caseWhen(row.top, row.anchor, anchorIndex)

\* the WHERE clause apart from the id
whereProgress(row, bottomPercent, topPercent, anchorIndex) ==
  \/ lessThan(row.top, topPercent) \/ topPercent = 0
  \/ lessThan(row.bottom, bottomPercent) \/ bottomPercent = 0
  \/ lessThan(row.anchor, anchorIndex) \/ anchorIndex = 0

\* the row after the UPDATE: every expression reads the row as it was
setProgress(row, bottomPercent, topPercent, anchorIndex, now) ==
  [top |-> caseWhen(row.top, row.top, topPercent),
   bottom |-> caseWhen(row.bottom, row.bottom, bottomPercent),
   anchor |-> anchorCase(row, anchorIndex),
   read_at |-> now]

\* the ids of a call: the item, and an id no row has
ProgressIds == {1, 2}

\* the percents and anchor indexes of a call; top and anchor may be null
Percents == 0..MaxProgress

UpdateLibraryItemReadingProgress(id, bottomPercent, topPercent, anchorIndex) ==
  /\ progress' =
       IF id = 1
          /\ whereProgress(progress.stored, bottomPercent, topPercent, anchorIndex)
       THEN [stored |-> setProgress(progress.stored, bottomPercent, topPercent,
                                    anchorIndex, time),
             before |-> progress.stored,
             request |-> <<id, bottomPercent, topPercent, anchorIndex>>,
             returned |-> "item"]
       ELSE [stored |-> progress.stored,
             before |-> progress.stored,
             request |-> <<id, bottomPercent, topPercent, anchorIndex>>,
             returned |-> "null"]
  /\ UNCHANGED <<time, items, entityLabels, job, history, jobs>>
  /\ UNCHANGED compileVars

NextProgress ==
  \E id \in ProgressIds, bottomPercent \in Percents,
     topPercent \in Percents \cup {NoValue},
     anchorIndex \in Percents \cup {NoValue} :
    UpdateLibraryItemReadingProgress(id, bottomPercent, topPercent, anchorIndex)

InitProgress ==
  /\ searchQuery = NoQuery
  /\ useFolders = FALSE
  /\ clock = <<0>>
  /\ parameters = <<>>
  /\ selects = <<>>
  /\ orders = <<>>
  /\ query = Null
  /\ error = ""
  /\ pc = "progress"
  /\ entry = Context(<<>>, <<>>, <<>>, FALSE, <<0>>)
  /\ calls = 0
  /\ time = 1
  /\ items = <<>>
  /\ entityLabels = <<>>
  /\ job = NoJob
  /\ history = NoHistory
  /\ jobs = <<>>
  /\ progress = NoProgress

SpecProgress == InitProgress /\ [][NextProgress]_vars

-----------------------------------------------------------------------------
(* Properties *)

Built == pc = "built"
Searched == pc = "searched"
Returned == pc \in {"built", "searched"} /\ error = ""

\* what buildQuery returns for a tree compiled where the request was compiled
FromEntry(ast) ==
  buildQuery(ast, entry.parameters, entry.selects, entry.orders,
             entry.useFolders, entry.clock)

IsTag(ast) == ast[1] = "Tag"
IsNamed(ast, names) == IsTag(ast) /\ ast[2][1] = "Field" /\ ast[2][2] \in names

\* the tags of a tree
RECURSIVE TagsOf(_)
TagsOf(ast) ==
  CASE ast[1] = "Tag" -> {ast}
    [] ast[1] = "LogicalExpression" -> TagsOf(ast[3]) \cup TagsOf(ast[4])
    [] ast[1] \in {"UnaryOperator", "ParenthesizedExpression"} -> TagsOf(ast[2])
    [] OTHER -> {}

Names(ps) == UNION { DOMAIN ps[i] : i \in 1..Len(ps) }

\* C1: when buildQuery returns for a tree compiled from an empty parameter
\* list, no parameter name occurs in two entries of the list, and the object
\* paramtersToObject merges the entries into keeps every binding of every entry
C1_UniqueParameterNames ==
  (Returned /\ entry.parameters = <<>>) =>
    /\ \A i, j \in 1..Len(parameters) :
         i # j => DOMAIN parameters[i] \cap DOMAIN parameters[j] = {}
    /\ \A i \in 1..Len(parameters) : \A n \in DOMAIN parameters[i] :
         paramtersToObject(parameters)[n] = parameters[i][n]

\* two elements of one label list and a date clause binding two names at once
C1_Witness ==
  /\ Built /\ error = "" /\ entry.parameters = <<>>
  /\ Len(parameters) = 3
  /\ {"label_0", "label_1"} \subseteq Names(parameters)
  /\ \E i \in 1..Len(parameters) : Cardinality(DOMAIN parameters[i]) = 2

\* the branch of the dispatch a tag takes: the keyword class of its value,
\* the wildcard flags of its elements, its comparator; never the value's text
DateBoundKind(b) ==
  IF b = <<>> \/ b = <<"*">> THEN "open"
  ELSE IF DateParse(b) = InvalidTime THEN "invalid" ELSE "date"

Branch(tag) ==
  LET value == tag[3][2]
      lower == Str(toLowerCase(value))
      keyword == Str(toLowerCase(tag[2][2]))
  IN IF tag[3][1] # "LiteralExpression" THEN <<"no literal">>
     ELSE IF value = <<>> THEN <<"empty">>
     ELSE IF tag[2][1] = "ImplicitField" THEN <<"literal">>
     ELSE
     CASE keyword = "in" ->
            <<IF lower \in {"all", "archive", "trash"} THEN lower ELSE "folder">>
       [] keyword = "is" ->
            <<IF lower \in {"read", "reading", "unread"} THEN lower ELSE "unknown">>
       [] keyword = "label" ->
            LET labels == split(value, <<",">>)
            IN <<"labels", [i \in 1..Len(labels) |-> includes(labels[i], "*")]>>
       [] keyword = "sort" ->
            LET parts == split(toLowerCase(value), <<"-">>)
            IN IF Str(parts[1]) \in SortBy
               THEN <<Str(parts[1]), Len(parts) >= 2 /\ Str(parts[2]) = "asc">>
               ELSE <<"unknown">>
       [] keyword \in {"has", "no"} ->
            <<IF lower \in {"highlight", "highlights"} THEN "highlight"
              ELSE IF lower \in {"label", "labels"} THEN "label"
              ELSE IF lower \in {"subscription", "subscriptions"} THEN "subscription"
              ELSE "unknown">>
       [] keyword \in {"saved", "read", "updated", "published"} ->
            IF lower \in {"today", "yesterday", "this week", "this month"}
            THEN <<lower>>
            ELSE LET parts == split(value, <<".", ".">>)
                 IN <<"range", DateBoundKind(parts[1]),
                      IF Len(parts) >= 2 THEN DateBoundKind(parts[2]) ELSE "open">>
       [] keyword = "recommendedby" ->
            <<IF value = <<"*">> THEN "any" ELSE "name">>
       [] keyword \in {"readposition", "wordscount"} ->
            LET m == operatorMatch(value)
            IN <<IF m[1] = 0 THEN "none"
                 ELSE Str(SubSeq(value, m[1], m[1] + m[2] - 1))>>
       [] OTHER -> <<"value">>

\* the names each entry of a parameter list binds, in order
NamesIn(ps) == [i \in 1..Len(ps) |-> DOMAIN ps[i]]

\* C2: two tags with the same field whose values take the same branch of the
\* dispatch, compiled from the same context, give the same predicate text,
\* the same selects, the same sort keys and the same parameter names, and
\* either both throw or neither: they differ in the bound values only
C2_InjectionSafe ==
  (Built /\ IsTag(searchQuery)) =>
    \A other \in TagInputs :
      (other[2] = searchQuery[2] /\ Branch(other) = Branch(searchQuery)) =>
        \E r \in {FromEntry(other)} :
          /\ r.clause = query
          /\ r.selects = selects
          /\ r.orders = orders
          /\ NamesIn(r.parameters) = NamesIn(parameters)
          /\ (r.err = "") = (error = "")

\* a label list compiled, and another label list of the same shape that binds
\* other values
C2_Witness ==
  /\ Built /\ error = ""
  /\ searchQuery = Tag(Field(f_label), Lit(v_fooStarBar))
  /\ \E other \in TagInputs :
       /\ other[2] = searchQuery[2] /\ Branch(other) = Branch(searchQuery)
       /\ FromEntry(other).parameters # parameters

\* whether a tag throws when it is compiled
Raises(tag) ==
  serializeTagExpression(tag, Context(<<>>, <<>>, <<>>, useFolders, entry.clock)).err # ""

\* C3: when any tag of the tree throws, at whatever place of the tree,
\* buildQuery throws and returns no predicate
C3_ErrorsPropagate ==
  (pc \in {"built", "searched"} /\ searchQuery # NoQuery
     /\ \E tag \in TagsOf(searchQuery) : Raises(tag)) =>
    (error # "" /\ query = Null)

\* the right operand throws beside a left operand that compiles to a clause
C3_Witness ==
  /\ Built /\ error # ""
  /\ searchQuery[1] = "LogicalExpression"
  /\ ~Raises(searchQuery[3])
  /\ FromEntry(searchQuery[3]).clause # Null
  /\ Raises(searchQuery[4])

\* C4: an AND or OR of two operands that both compile to null is null, of one
\* operand that compiles to null is the other operand's clause as that operand
\* alone compiles, and of two clauses is '<left> <operator> <right>'; NOT of a
\* null operand is null, and otherwise the operand's clause after 'NOT '
C4_NullAbsorption ==
  (Built /\ error = "") =>
    /\ searchQuery[1] = "LogicalExpression" =>
         \E left \in {FromEntry(searchQuery[3])} :
         \E right \in {serialize(searchQuery[4], ContextOf(left))} :
           /\ (left.clause = Null /\ right.clause = Null) => query = Null
           /\ (left.clause = Null /\ right.clause # Null) =>
                /\ query = right.clause
                /\ query = FromEntry(searchQuery[4]).clause
           /\ (left.clause # Null /\ right.clause = Null) =>
                /\ query = left.clause
                /\ query = FromEntry(searchQuery[3]).clause
           /\ (left.clause # Null /\ right.clause # Null) =>
                query = left.clause \o " " \o searchQuery[2] \o " " \o right.clause
    /\ searchQuery[1] = "UnaryOperator" =>
         \E operand \in {FromEntry(searchQuery[2])} :
           query = IF operand.clause = Null THEN Null
                   ELSE "NOT " \o operand.clause

\* an operand that compiles to null beside one that compiles to a clause
C4_Witness ==
  /\ Built /\ error = "" /\ query # Null
  /\ searchQuery[1] = "LogicalExpression"
  /\ FromEntry(searchQuery[3]).clause = Null
  /\ query = FromEntry(searchQuery[4]).clause

\* whether every tag of a tree has an empty literal
AllEmpty(ast) ==
  /\ TagsOf(ast) # {}
  /\ \A tag \in TagsOf(ast) : tag[3] = LiteralExpression(<<>>)

\* C5: a tree whose tags all have empty literals compiles to a null predicate,
\* binds no parameter and adds no select, and the order list of the search is
\* the default key alone
C5_EmptyLiterals ==
  (pc \in {"built", "searched"} /\ searchQuery # NoQuery /\ AllEmpty(searchQuery)) =>
    /\ error = "" /\ query = Null
    /\ parameters = <<>>
    /\ selects = entry.selects
    /\ Built => orders = <<>>
    /\ Searched => orders = <<DefaultOrder>>

\* a search for an AND or OR of an implicit and a named tag, both empty
C5_Witness ==
  /\ Searched /\ AllEmpty(searchQuery)
  /\ searchQuery[1] = "LogicalExpression"
  /\ searchQuery[3][2] = ImplicitField
  /\ searchQuery[4][2] # ImplicitField

SavedAt == "library_item.saved_at"
Targets(os, by) == \E i \in 1..Len(os) : os[i].by = by

\* the order list buildQuery leaves for the request of a search
CompiledOrders ==
  IF searchQuery = NoQuery THEN <<>>
  ELSE buildQuery(searchQuery, <<>>, BaseSelects, <<>>, useFolders,
                  entry.clock).orders

\* C6: the order list of a search always has a key on library_item.saved_at;
\* it is the keys added during compilation, followed by saved_at DESC NULLS
\* LAST exactly when none of those keys is on library_item.saved_at
C6_DefaultTiebreak ==
  (Searched /\ error = "") =>
    /\ Targets(orders, SavedAt)
    /\ orders = IF Targets(CompiledOrders, SavedAt)
                THEN CompiledOrders
                ELSE Append(CompiledOrders, DefaultOrder)

\* sort:updated-desc does not suppress the default key
C6_Witness ==
  /\ Searched /\ error = ""
  /\ orders = <<[by |-> "library_item.updated_at", order |-> "DESC",
                 nulls |-> "NULLS LAST"],
                [by |-> "library_item.saved_at", order |-> "DESC",
                 nulls |-> "NULLS LAST"]>>

IsSortTag(ast) ==
  IsTag(ast) /\ ast[2][1] = "Field" /\ Str(toLowerCase(ast[2][2])) = "sort"

\* a tree with every sort tag replaced by an implicit tag with an empty literal
RECURSIVE WithoutSort(_)
WithoutSort(ast) ==
  CASE ast[1] = "Tag" ->
         IF IsSortTag(ast) THEN Tag(ImplicitField, LiteralExpression(<<>>))
         ELSE ast
    [] ast[1] = "LogicalExpression" ->
         LogicalExpression(ast[2], WithoutSort(ast[3]), WithoutSort(ast[4]))
    [] ast[1] = "UnaryOperator" -> UnaryOperator(WithoutSort(ast[2]))
    [] ast[1] = "ParenthesizedExpression" ->
         ParenthesizedExpression(WithoutSort(ast[2]))
    [] OTHER -> ast

\* C7: a sort tag compiles to null for every value, binds no parameter, adds
\* no select and at most appends one key to the order list; a tree compiles
\* to the predicate, the parameters and the selects of the same tree with its
\* sort tags replaced by nodes that compile to null
C7_SortIsNoFilter ==
  (pc \in {"built", "searched"} /\ searchQuery # NoQuery) =>
    /\ (Built /\ IsSortTag(searchQuery)) =>
         /\ error = "" /\ query = Null
         /\ parameters = entry.parameters
         /\ selects = entry.selects
         /\ \/ orders = entry.orders
            \/ /\ Len(orders) = Len(entry.orders) + 1
               /\ SubSeq(orders, 1, Len(entry.orders)) = entry.orders
    /\ \E r \in {FromEntry(WithoutSort(searchQuery))} :
         /\ r.clause = query
         /\ r.err = error
         /\ r.parameters = parameters
         /\ r.selects = selects

\* a sort tag beside a tag that binds a parameter
C7_Witness ==
  /\ Built /\ error = "" /\ query # Null /\ parameters # <<>>
  /\ orders # <<>>
  /\ searchQuery[1] = "LogicalExpression"
  /\ IsSortTag(searchQuery[3])

\* the column a recognized sort key is mapped to
SortColumn(key) ==
  CASE key = "saved" -> "saved_at"
    [] key = "updated" -> "updated_at"
    [] key = "published" -> "published_at"
    [] key = "read" -> "read_at"
    [] key = "wordscount" -> "word_count"

\* C8: a sort tag '<field>-<order>' adds no key when the lower-cased field is
\* not one of saved, updated, published, read, wordscount; otherwise it
\* appends exactly one key, on the column the field is mapped to, ASC NULLS
\* FIRST for order asc and DESC NULLS LAST for order desc
C8_SortDirective ==
  (Built /\ IsSortTag(searchQuery)
     /\ Len(split(searchQuery[3][2], <<"-">>)) = 2) =>
    \E parts \in {split(toLowerCase(searchQuery[3][2]), <<"-">>)} :
      IF Str(parts[1]) \notin {"saved", "updated", "published", "read",
                               "wordscount"}
      THEN orders = entry.orders
      ELSE /\ Len(orders) = Len(entry.orders) + 1
           /\ SubSeq(orders, 1, Len(entry.orders)) = entry.orders
           /\ orders[Len(orders)].by
                = "library_item." \o SortColumn(Str(parts[1]))
           /\ Str(parts[2]) = "asc" =>
                /\ orders[Len(orders)].order = "ASC"
                /\ orders[Len(orders)].nulls = "NULLS FIRST"
           /\ Str(parts[2]) = "desc" =>
                /\ orders[Len(orders)].order = "DESC"
                /\ orders[Len(orders)].nulls = "NULLS LAST"

\* sort:wordscount-asc
C8_Witness ==
  /\ Built
  /\ searchQuery = Tag(Field(f_sort), Lit(v_wordscount \o <<"-">> \o v_asc))
  /\ orders = <<[by |-> "library_item.word_count", order |-> "ASC",
                 nulls |-> "NULLS FIRST"]>>

IsLabelTag(ast) ==
  IsTag(ast) /\ ast[2][1] = "Field" /\ Str(toLowerCase(ast[2][2])) = "label"

PatternMatch(name) ==
  "exists (select 1 from unnest(array_cat(library_item.label_names, library_item.highlight_labels)::text[]) as label where label ILIKE :"
    \o name \o ")"
ExactMatch(name) ==
  ":" \o name
    \o " = ANY(lower(array_cat(library_item.label_names, library_item.highlight_labels)::text)::text[])"

\* an element in lower case with every star replaced by a percent sign
LabelPattern(element) ==
  Str([k \in 1..Len(element) |->
         IF element[k] = "*" THEN "%" ELSE LowerOf(element[k])])

\* C9: a label tag with a non-empty value of N comma-separated elements
\* compiles to '(' sub-clause 1 OR ... OR sub-clause N ')', element i bound
\* to its own parameter label_<count of parameters bound before it>: a
\* pattern match on the lower-cased element with every '*' replaced by '%'
\* for an element with a '*', an exact match on the lower-cased element else
C9_LabelList ==
  (Built /\ IsLabelTag(searchQuery) /\ searchQuery[3][2] # <<>>) =>
    \E elements \in {split(searchQuery[3][2], <<",">>)} :
      LET name(i) == "label_" \o ToString(Len(entry.parameters) + i - 1)
          sub(i) == IF \E k \in 1..Len(elements[i]) : elements[i][k] = "*"
                    THEN PatternMatch(name(i))
                    ELSE ExactMatch(name(i))
      IN /\ error = ""
         /\ query = "(" \o join([i \in 1..Len(elements) |-> sub(i)], " OR ") \o ")"
         /\ Len(parameters) = Len(entry.parameters) + Len(elements)
         /\ SubSeq(parameters, 1, Len(entry.parameters)) = entry.parameters
         /\ \A i \in 1..Len(elements) :
              LET p == parameters[Len(entry.parameters) + i]
              IN /\ DOMAIN p = {name(i)}
                 /\ p[name(i)] = <<"str", LabelPattern(elements[i])>>

\* label:"foo*,bar"
C9_Witness ==
  /\ Built
  /\ searchQuery = Tag(Field(f_label), Lit(v_fooStarBar))
  /\ query = "(exists (select 1 from unnest(array_cat(library_item.label_names, library_item.highlight_labels)::text[]) as label where label ILIKE :label_0) OR :label_1 = ANY(lower(array_cat(library_item.label_names, library_item.highlight_labels)::text)::text[]))"
  /\ parameters = <<"label_0" :> <<"str", "foo%">>, "label_1" :> <<"str", "bar">>>>

IsDateTag(ast) ==
  /\ IsTag(ast) /\ ast[2][1] = "Field"
  /\ Str(toLowerCase(ast[2][2])) \in {"saved", "read", "updated", "published"}

SpecialDates == {"today", "yesterday", "this week", "this month"}

\* the two bounds bound by the parameter entry a date tag pushed
StartBound == parameters[Len(parameters)]
                [Str(searchQuery[2][2]) \o "_start_" \o ToString(Len(entry.parameters))]
EndBound == parameters[Len(parameters)]
              [Str(searchQuery[2][2]) \o "_end_" \o ToString(Len(entry.parameters))]

BoundTwo ==
  /\ error = ""
  /\ Len(parameters) = Len(entry.parameters) + 1
  /\ DOMAIN parameters[Len(parameters)] =
       { Str(searchQuery[2][2]) \o "_start_" \o ToString(Len(entry.parameters)),
         Str(searchQuery[2][2]) \o "_end_" \o ToString(Len(entry.parameters)) }
  /\ searchQuery[2][2] = toLowerCase(searchQuery[2][2]) =>
       query = "library_item." \o Str(searchQuery[2][2]) \o "_at BETWEEN :"
                 \o Str(searchQuery[2][2]) \o "_start_"
                 \o ToString(Len(entry.parameters)) \o " AND :"
                 \o Str(searchQuery[2][2]) \o "_end_"
                 \o ToString(Len(entry.parameters))

\* C10: a date field with a value 'start..end' compiles to a BETWEEN clause
\* with two bound parameters: the parsed start date, or the epoch for an
\* empty or '*' start, and the parsed end date, or the instant the clock
\* shows for an empty or '*' end; a bound that is no date makes the compile
\* throw and bind nothing. The value 'today' binds the start of the day of
\* the instant the clock shows and the instant it shows next.
C10_DateRange ==
  (Built /\ IsDateTag(searchQuery)) =>
    \E value \in {searchQuery[3][2]} :
    \E parts \in {split(value, <<".", ".">>)} :
      /\ (Len(parts) = 2 /\ Str(toLowerCase(value)) \notin SpecialDates) =>
           IF "invalid" \in {DateBoundKind(parts[1]), DateBoundKind(parts[2])}
           THEN /\ error \in {"Invalid start date", "Invalid end date"}
                /\ query = Null
                /\ parameters = entry.parameters
           ELSE /\ BoundTwo
                /\ StartBound =
                     <<"date", IF DateBoundKind(parts[1]) = "open" THEN Epoch
                               ELSE DateParse(parts[1])>>
                /\ EndBound =
                     <<"date", IF DateBoundKind(parts[2]) = "open"
                               THEN entry.clock[1]
                               ELSE DateParse(parts[2])>>
      /\ Str(toLowerCase(value)) = "today" =>
           /\ BoundTwo
           /\ StartBound = <<"date", StartOfDay(entry.clock[1])>>
           /\ EndBound = <<"date", entry.clock[2]>>

\* saved:2023-01-01..2023-01-31, 19358 and 19388 days after the epoch
C10_Witness ==
  /\ Built /\ error = ""
  /\ searchQuery = Tag(Field(f_saved), Lit(v_jan1 \o <<".", ".">> \o v_jan31))
  /\ query = "library_item.saved_at BETWEEN :saved_start_0 AND :saved_end_0"
  /\ StartBound = <<"date", 19358 * TicksPerDay>>
  /\ EndBound = <<"date", 19388 * TicksPerDay>>

IsRangeTag(ast) ==
  /\ IsTag(ast) /\ ast[2][1] = "Field"
  /\ Str(toLowerCase(ast[2][2])) \in {"readposition", "wordscount"}

\* the comparator a value begins with, "" when it begins with none
LeadingComparator(value) ==
  IF value = <<>> \/ value[1] \notin {"<", ">"} THEN ""
  ELSE IF Len(value) >= 2 /\ value[2] = "=" THEN Str(SubSeq(value, 1, 2))
  ELSE value[1]

RangeColumn(name) ==
  IF Str(toLowerCase(name)) = "wordscount" THEN "word_count"
  ELSE "reading_progress_bottom_percent"

\* C11: a readposition or wordscount tag compiles to a comparison only when
\* its value begins with <, >, <= or >=: the operator is that comparator and
\* the bound value the integer parsed from the rest of the value; a value
\* that does not begin with a comparator raises and binds nothing
C11_LeadingComparator ==
  (Built /\ IsRangeTag(searchQuery) /\ searchQuery[3][2] # <<>>) =>
    \E value \in {searchQuery[3][2]} :
    \E operator \in {LeadingComparator(value)} :
    \E param \in {"range_" \o Str(searchQuery[2][2]) \o "_"
                    \o ToString(Len(entry.parameters))} :
      IF operator = ""
      THEN error # "" /\ query = Null /\ parameters = entry.parameters
      ELSE /\ error = ""
           /\ query = "library_item." \o RangeColumn(searchQuery[2][2]) \o " "
                        \o operator \o " :" \o param
           /\ parameters = Append(entry.parameters,
                param :> parseInt(SubSeq(value, Len(operator) + 1, Len(value))))

IsIncludesTag(ast) ==
  /\ IsTag(ast) /\ ast[2][1] = "Field"
  /\ Str(toLowerCase(ast[2][2])) = "includes"

\* C12: an includes tag with an empty value raises; one with a non-empty
\* value compiles to the single clause 'id = ANY(:includes_<n>)' with one
\* bound parameter, the list of the comma-separated parts of the value
C12_Includes ==
  (Built /\ IsIncludesTag(searchQuery)) =>
    IF searchQuery[3][1] # "LiteralExpression" \/ searchQuery[3][2] = <<>>
    THEN error # "" /\ query = Null
    ELSE \E param \in {"includes_" \o ToString(Len(entry.parameters))} :
           /\ error = ""
           /\ query = "library_item.id = ANY(:" \o param \o ")"
           /\ parameters = Append(entry.parameters,
                param :> <<"list",
                  [i \in 1..Len(split(searchQuery[3][2], <<",">>)) |->
                     Str(split(searchQuery[3][2], <<",">>)[i])]>>)

RecognizedKeywords ==
  {"in", "is", "type", "label", "sort", "has", "saved", "read", "updated",
   "published", "subscription", "rss", "language", "author", "title",
   "description", "note", "site", "includes", "recommendedby", "no", "use",
   "mode", "event", "readposition", "wordscount"}

IsUnknownTag(ast) ==
  /\ IsTag(ast) /\ ast[2][1] = "Field"
  /\ Str(toLowerCase(ast[2][2])) \notin RecognizedKeywords
  /\ ast[3][1] = "LiteralExpression" /\ ast[3][2] # <<>>

\* C13: a named tag with an unrecognized field and a non-empty value does not
\* raise; it compiles as the implicit tag with the literal '<field>:<value>'
\* compiles in the same context: the full-text clause, one parameter bound
\* to '<field>:<value>', one rank select and one descending order on the rank
C13_UnknownFieldIsFreeText ==
  (Built /\ IsUnknownTag(searchQuery)) =>
    \E n \in {ToString(Len(entry.parameters))} :
    \E r \in {FromEntry(Tag(ImplicitField, LiteralExpression(
                searchQuery[2][2] \o <<":">> \o searchQuery[3][2])))} :
      /\ error = ""
      /\ query = "websearch_to_tsquery('english', :implicit_field_" \o n
                   \o ") @@ library_item.search_tsv"
      /\ parameters = Append(entry.parameters,
           ("implicit_field_" \o n) :>
             <<"str", Str(searchQuery[2][2]) \o ":" \o Str(searchQuery[3][2])>>)
      /\ selects = Append(entry.selects,
           [column |-> "ts_rank_cd(library_item.search_tsv, websearch_to_tsquery('english', :implicit_field_"
                         \o n \o "))",
            alias |-> "rank_" \o n])
      /\ orders = Append(entry.orders,
           [by |-> "rank_" \o n, order |-> "DESC", nulls |-> Undefined])
      /\ r.clause = query /\ r.err = error /\ r.parameters = parameters
      /\ r.selects = selects /\ r.orders = orders

\* bogus:foo compiled after one parameter was bound
C13_Witness ==
  /\ Built /\ error = ""
  /\ searchQuery = Tag(Field(f_bogus), Lit(v_foo))
  /\ Len(entry.parameters) = 1
  /\ parameters[2] = ("implicit_field_1" :> <<"str", "bogus:foo">>)

IdentifierChars ==
  { UpperCase[i] : i \in 1..Len(UpperCase) }
    \cup { LowerCase[i] : i \in 1..Len(LowerCase) }
    \cup Digits \cup {"_"}

\* the last position of the identifier of the text that covers position j
RECURSIVE IdentifierEnd(_, _)
IdentifierEnd(text, j) ==
  IF j < Len(text) /\ SubSeq(text, j + 1, j + 1) \in IdentifierChars
  THEN IdentifierEnd(text, j + 1)
  ELSE j

\* the names that occur in a SQL text as ':name' (a '::' is a type cast)
Placeholders(text) ==
  { SubSeq(text, i + 1, IdentifierEnd(text, i + 1)) :
      i \in { k \in 1..(Len(text) - 1) :
                /\ SubSeq(text, k, k) = ":"
                /\ SubSeq(text, k + 1, k + 1) \in IdentifierChars
                /\ k = 1 \/ SubSeq(text, k - 1, k - 1) # ":" } }

\* C14: when buildQuery returns, every ':name' placeholder of the returned
\* predicate and of every select column added during the call is bound
\* under that name in the parameter list
C14_PlaceholdersBound ==
  (Built /\ error = "") =>
    /\ query # Null => Placeholders(query) \subseteq Names(parameters)
    /\ \A i \in (Len(entry.selects) + 1)..Len(selects) :
         Placeholders(selects[i].column) \subseteq Names(parameters)

\* a predicate with two placeholders and a select with one
C14_Witness ==
  /\ Built /\ error = "" /\ query # Null
  /\ Placeholders(query) = {"implicit_field_0", "label_1", "label_2"}
  /\ Len(selects) = Len(entry.selects) + 1
  /\ Placeholders(selects[Len(selects)].column) = {"implicit_field_0"}

Done == job.pc = "done"

\* whether a row holds the column assignments
Applied(item, values) == \A col \in DOMAIN values : item[col] = values[col]

\* the least number of batches of batchSize rows that hold n rows
Ceil(n) == CHOOSE k \in 0..n : k * batchSize >= n /\ (k = 0 \/ (k - 1) * batchSize < n)

Watermark == IF job.addLabels THEN job.now ELSE job.start

\* C17: no step of a bulk job, AddLabels included, modifies or labels a row
\* whose last-modified time is at or after the watermark the job captured
C17_WatermarkGuard ==
  [][ job' # job =>
        \A id \in 1..Len(items) :
          ( \/ items'[id] # items[id]
            \/ \E k \in (Len(entityLabels) + 1)..Len(entityLabels') :
                 entityLabels'[k].libraryItemId = id )
            => items[id].updated_at < Watermark ]_vars

\* C18: a job for a column-assignment action over N matching rows runs
\* exactly ceil(N / batchSize) steps, no step modifies more than batchSize
\* rows, and the loop never runs past that number of steps
C18_BoundedSteps ==
  (job.pc \in {"loop", "done"} /\ ~job.addLabels) =>
    \E N \in {Cardinality(Matching(history.atLoop, job.query, job.parameters))} :
      /\ Len(history.modified) = job.i
      /\ \A k \in 1..Len(history.modified) :
           Cardinality(history.modified[k]) <= batchSize
      /\ job.pc = "loop" => job.i < Ceil(N)
      /\ Done => job.i = Ceil(N)

\* three matching rows: a full step and a step with the rest
C18_Witness ==
  /\ Done /\ ~job.addLabels
  /\ Cardinality(Matching(history.atLoop, job.query, job.parameters)) = 3
  /\ Len(history.modified) = 2
  /\ Cardinality(history.modified[1]) = 2
  /\ Cardinality(history.modified[2]) = 1

StoredColumns ==
  {"archived_at", "deleted_at", "read_at", "saved_at", "state", "folder",
   "reading_progress_top_percent", "reading_progress_bottom_percent"}

\* C19: a second run of a job for Archive, Delete, MarkAsRead or MoveToFolder
\* with the same criteria leaves every stored column of every row that was
\* there before the first run as the first run left it
C19_RerunChangesNothing ==
  (Done /\ ~job.addLabels /\ job.run = 2) =>
    \A id \in 1..Len(history.afterFirst) :
      items[id].created_at = 0 =>
        \A col \in StoredColumns : items[id][col] = history.afterFirst[id][col]

\* the associations a fetch of the matching rows has to add
MissingAssociations(rows, labels) ==
  { [labelId |-> labels[k].id, libraryItemId |-> id, name |-> labels[k].name] :
      <<id, k>> \in
        { p \in Matching(rows, job.query, job.parameters) \X (1..Len(labels)) :
            \A n \in 1..Len(rows[p[1]].label_names) :
              Str(toLowerCase(rows[p[1]].label_names[n]))
                # Str(toLowerCase(labels[p[2]].name)) } }

\* label_names of every row shows the EntityLabel rows saved for it
Reflected == \A id \in 1..Len(items) : reflected(items[id], id) = items[id]

\* C20: the AddLabels step inserts an association for a matching item and a
\* requested label exactly when the item has no label of that name ignoring
\* case; no step removes or changes an association saved before; a second
\* run, once label_names shows the first, inserts nothing for its items
C20_AddLabelsMerge ==
  [][ /\ Len(entityLabels') >= Len(entityLabels)
      /\ SubSeq(entityLabels', 1, Len(entityLabels)) = entityLabels
      /\ (job.pc = "transaction" /\ job.addLabels /\ job'.pc = "done") =>
           /\ { entityLabels'[k] : k \in (Len(entityLabels) + 1)..Len(entityLabels') }
                = MissingAssociations(items, job.request.labels[2])
           /\ Len(entityLabels') - Len(entityLabels)
                = Cardinality(MissingAssociations(items, job.request.labels[2]))
           /\ (job.run = 2 /\ Reflected) =>
                \A k \in (Len(entityLabels) + 1)..Len(entityLabels') :
                  entityLabels'[k].libraryItemId > Len(history.afterFirst)
    ]_vars

\* the second run of AddLabels foo, bar on an item labelled Foo: the first
\* run added bar, the second nothing
C20_Witness ==
  /\ Done /\ job.addLabels /\ job.run = 2
  /\ job.request.labels = <<"some", <<Label(2, v_foo), Label(3, v_bar)>>>>
  /\ Len(items) = 1
  /\ items[1].label_names = <<v_Foo, v_bar>>
  /\ entityLabels = <<[labelId |-> 3, libraryItemId |-> 1, name |-> v_bar]>>

\* the job raised the error and changed neither a row nor an association
Rejects(message) ==
  /\ job'.pc = "failed"
  /\ job'.error = message
  /\ items' = items
  /\ entityLabels' = entityLabels

\* C21: an action outside the five bulk actions raises 'Invalid bulk action',
\* MoveToFolder without a folder argument raises 'Invalid arguments', and
\* AddLabels without labels, once its query is compiled and the transaction
\* runs, raises 'Labels are required for this action'; in each case no row
\* is modified and no label association is inserted
C21_Validation ==
  [][ job' # job =>
        /\ job'.request.action \notin BulkActionType
             => Rejects("Invalid bulk action")
        /\ ( /\ job'.request.action = "MoveToFolder"
             /\ job'.request.args[1] # "folder" )
             => Rejects("Invalid arguments")
        /\ ( /\ job'.request.action = "AddLabels"
             /\ job'.request.labels[1] = "none" )
             => /\ items' = items
                /\ entityLabels' = entityLabels
                /\ job'.pc \in {"failed", "transaction"}
                /\ job.pc = "transaction"
                     => Rejects("Labels are required for this action")
    ]_vars

\* AddLabels without labels over a table with a matching row has failed
C21_Witness ==
  /\ job.pc = "failed"
  /\ job.error = "Labels are required for this action"
  /\ job.request.ast = Tag(Field(f_in), Lit(v_all))
  /\ Len(items) > 0
  /\ entityLabels = <<>>

\* whether a row shows the effect of the column assignments: the value
\* assigned, or for a column that takes the time of the job, a time
Effected(item, values) ==
  \A col \in DOMAIN values :
    IF col \in {"archived_at", "deleted_at", "read_at", "saved_at"}
    THEN item[col] # NoTime
    ELSE item[col] = values[col]

\* C22: when two jobs whose steps interleave have both finished, every row
\* that matched the predicate of a job when it started, with a last-modified
\* time before the watermark of that job, shows that job's action
C22_NoSkip ==
  (\A j \in JobIds : jobs[j].pc = "done") =>
    \A j \in JobIds : \A id \in 1..Len(jobs[j].atStart) :
      ( /\ Satisfies(jobs[j].atStart[id], jobs[j].query, jobs[j].parameters)
        /\ jobs[j].atStart[id].updated_at < jobs[j].start )
        => Effected(items[id], jobs[j].values)

\* the tags of a tree in the order a depth-first, left-to-right traversal
\* meets them
RECURSIVE TagSequence(_)
TagSequence(ast) ==
  CASE ast[1] = "Tag" -> <<ast>>
    [] ast[1] = "LogicalExpression" -> TagSequence(ast[3]) \o TagSequence(ast[4])
    [] ast[1] \in {"UnaryOperator", "ParenthesizedExpression"} ->
         TagSequence(ast[2])
    [] OTHER -> <<>>

\* a tag matched as free text: an implicit tag with a non-empty literal, or
\* a tag with an unrecognized field
IsFreeText(tag) ==
  \/ /\ tag[2] = ImplicitField
     /\ tag[3][1] = "LiteralExpression" /\ tag[3][2] # <<>>
  \/ IsUnknownTag(tag)

\* a sort tag whose field is a sort key
IsSortDirective(tag) ==
  /\ IsSortTag(tag)
  /\ tag[3][1] = "LiteralExpression" /\ tag[3][2] # <<>>
  /\ Str(split(toLowerCase(tag[3][2]), <<"-">>)[1])
       \in {"saved", "updated", "published", "read", "wordscount"}

\* what the keys of the sort list are expected to be on, in order: "rank"
\* for a free-text tag, the column for a sort directive
RECURSIVE Encounter(_)
Encounter(tags) ==
  IF tags = <<>> THEN <<>>
  ELSE (IF IsFreeText(Head(tags)) THEN <<"rank">>
        ELSE IF IsSortDirective(Head(tags))
        THEN <<"library_item."
                 \o SortColumn(Str(split(toLowerCase(Head(tags)[3][2]),
                                         <<"-">>)[1]))>>
        ELSE <<>>) \o Encounter(Tail(tags))

\* C23: when buildQuery returns, the sort list is the list it was given
\* followed by one key per free-text tag and per sort directive, in the
\* order a depth-first, left-to-right traversal meets those tags: a sort
\* directive keeps the rank keys added before it where they are, and a
\* free-text tag met after it adds its rank key behind it
C23_EncounterOrder ==
  (Built /\ error = "" /\ searchQuery # NoQuery) =>
    \E expected \in {Encounter(TagSequence(searchQuery))} :
      /\ Len(orders) = Len(entry.orders) + Len(expected)
      /\ SubSeq(orders, 1, Len(entry.orders)) = entry.orders
      /\ \A i \in 1..Len(expected) :
           \E key \in {orders[Len(entry.orders) + i]} :
             IF expected[i] = "rank"
             THEN /\ Len(key.by) > 5 /\ SubSeq(key.by, 1, 5) = "rank_"
                  /\ key.order = "DESC"
             ELSE key.by = expected[i]

\* a free-text tag before a sort directive: the rank stays first
C23_Witness ==
  /\ Built /\ error = ""
  /\ searchQuery = LogicalExpression("AND", Tag(ImplicitField, Lit(v_foo)),
                     Tag(Field(f_sort), Lit(v_saved \o <<"-">> \o v_asc)))
  /\ Len(orders) = 2
  /\ orders[1].by = "rank_0"
  /\ orders[2].by = "library_item.saved_at"

\* the free-text tags of a tree, in the order they are met
RECURSIVE FreeText(_)
FreeText(tags) ==
  IF tags = <<>> THEN <<>>
  ELSE (IF IsFreeText(Head(tags)) THEN <<Head(tags)>> ELSE <<>>)
         \o FreeText(Tail(tags))

\* the entries a list has after the first n
After(list, n) == SubSeq(list, n + 1, Len(list))

\* the orders on a rank alias among the keys added
RankOrders ==
  LET added == After(orders, Len(entry.orders))
      RECURSIVE pick(_)
      pick(k) ==
        IF k > Len(added) THEN <<>>
        ELSE (IF Len(added[k].by) > 5 /\ SubSeq(added[k].by, 1, 5) = "rank_"
              THEN <<added[k]>> ELSE <<>>) \o pick(k + 1)
  IN pick(1)

\* C24: an implicit tag with a non-empty literal appends one parameter
\* implicit_field_N bound to the literal, one select with alias rank_N that
\* scores against :implicit_field_N and one descending order on rank_N, and
\* returns the full-text clause on :implicit_field_N; in a tree the k-th
\* free-text tag has its own select, order and parameter, and the aliases
\* rank_N are pairwise distinct
C24_RankPerFreeText ==
  (Built /\ error = "" /\ searchQuery # NoQuery) =>
    /\ ( /\ IsTag(searchQuery) /\ searchQuery[2] = ImplicitField
         /\ IsFreeText(searchQuery) ) =>
         \E n \in {ToString(Len(entry.parameters))} :
           /\ query = "websearch_to_tsquery('english', :implicit_field_" \o n
                        \o ") @@ library_item.search_tsv"
           /\ parameters = Append(entry.parameters,
                ("implicit_field_" \o n) :> <<"str", Str(searchQuery[3][2])>>)
           /\ selects = Append(entry.selects,
                [column |-> "ts_rank_cd(library_item.search_tsv, websearch_to_tsquery('english', :implicit_field_"
                              \o n \o "))",
                 alias |-> "rank_" \o n])
           /\ orders = Append(entry.orders,
                [by |-> "rank_" \o n, order |-> "DESC", nulls |-> Undefined])
    /\ \E tags \in {FreeText(TagSequence(searchQuery))} :
       \E added \in {After(selects, Len(entry.selects))} :
         /\ Len(added) = Len(tags)
         /\ Len(RankOrders) = Len(tags)
         /\ \A i, j \in 1..Len(added) : i # j => added[i].alias # added[j].alias
         /\ \A k \in 1..Len(added) :
              \E n \in {SubSeq(added[k].alias, 6, Len(added[k].alias))} :
                /\ added[k].alias = "rank_" \o n
                /\ added[k].column
                     = "ts_rank_cd(library_item.search_tsv, websearch_to_tsquery('english', :implicit_field_"
                         \o n \o "))"
                /\ RankOrders[k] = [by |-> added[k].alias, order |-> "DESC",
                                    nulls |-> Undefined]
                /\ \E p \in 1..Len(parameters) :
                     /\ DOMAIN parameters[p] = {"implicit_field_" \o n}
                     /\ IF tags[k][2] = ImplicitField
                        THEN parameters[p]["implicit_field_" \o n]
                               = <<"str", Str(tags[k][3][2])>>
                        ELSE parameters[p]["implicit_field_" \o n]
                               = <<"str", Str(tags[k][2][2]) \o ":"
                                            \o Str(tags[k][3][2])>>

\* foo OR foo: rank_0 and rank_1
C24_Witness ==
  /\ Built /\ error = ""
  /\ searchQuery = LogicalExpression("OR", Tag(ImplicitField, Lit(v_foo)),
                                     Tag(ImplicitField, Lit(v_foo)))
  /\ Len(selects) = 2
  /\ selects[1].alias = "rank_0"
  /\ selects[2].alias = "rank_1"

IsHasOrNo(ast) ==
  /\ IsTag(ast) /\ ast[2][1] = "Field"
  /\ Str(toLowerCase(ast[2][2])) \in {"has", "no"}
  /\ ast[3][1] = "LiteralExpression" /\ ast[3][2] # <<>>

\* the column a keyword of has and no names, singular or plural
KeywordColumn(v) ==
  CASE v \in {"highlight", "highlights"} -> "highlight_annotations"
    [] v \in {"label", "labels"} -> "label_names"
    [] v \in {"subscription", "subscriptions"} -> "subscription"
    [] OTHER -> ""

\* the plural of a value, or the singular of a plural
OtherNumber(value) ==
  IF value[Len(value)] \in {"s", "S"} THEN SubSeq(value, 1, Len(value) - 1)
  ELSE value \o <<"s">>

\* C25: for a non-empty value that names highlight(s), label(s) or
\* subscription(s) in any letter case, no:<value> compiles to
\* '(column IS NULL OR column = '{}')' on the mapped column and has:<value>
\* to 'NOT (' that clause ')'; the other grammatical number gives the same
\* clause; every other value raises 'Unexpected keyword' for both; neither
\* binds a parameter, adds a select or adds a sort key
C25_HasNoComplement ==
  (Built /\ IsHasOrNo(searchQuery)) =>
    \E column \in {KeywordColumn(Str(toLowerCase(searchQuery[3][2])))} :
    \E no \in {FromEntry(Tag(Field(f_no), searchQuery[3]))} :
    \E has \in {FromEntry(Tag(Field(f_has), searchQuery[3]))} :
      /\ parameters = entry.parameters
      /\ selects = entry.selects
      /\ orders = entry.orders
      /\ IF column = ""
         THEN /\ error = "Unexpected keyword: " \o Str(searchQuery[3][2])
              /\ no.err = error /\ has.err = error
         ELSE /\ error = ""
              /\ no.err = "" /\ has.err = ""
              /\ no.clause = "(library_item." \o column
                               \o " IS NULL OR library_item." \o column
                               \o " = '{}')"
              /\ has.clause = "NOT (" \o no.clause \o ")"
              /\ query = IF Str(toLowerCase(searchQuery[2][2])) = "no"
                         THEN no.clause ELSE has.clause
              /\ FromEntry(Tag(searchQuery[2],
                               Lit(OtherNumber(searchQuery[3][2])))).clause
                   = query

\* has:Labels
C25_Witness ==
  /\ Built /\ error = ""
  /\ searchQuery = Tag(Field(f_has), Lit(v_Labels))
  /\ query = "NOT ((library_item.label_names IS NULL OR library_item.label_names = '{}'))"

IsInTag(ast) ==
  /\ IsTag(ast) /\ ast[2][1] = "Field"
  /\ Str(toLowerCase(ast[2][2])) = "in"
  /\ ast[3][1] = "LiteralExpression"

\* C26: an in tag raises nothing and adds no select and no sort key; the
\* value all, in any letter case, and the empty value compile to null,
\* archive to 'archived_at IS NOT NULL', trash to 'deleted_at within the
\* last 14 days', each without a parameter; every other value compiles to
\* 'archived_at IS NULL' without a parameter when folders are not in use,
\* and when they are to that clause ANDed in parentheses with
\* 'folder = :folder_N', whose parameter, the only one added, is the
\* value as written
C26_InTag ==
  (Built /\ IsInTag(searchQuery)) =>
    \E v \in {Str(toLowerCase(searchQuery[3][2]))} :
    \E n \in {ToString(Len(entry.parameters))} :
      /\ error = ""
      /\ selects = entry.selects
      /\ orders = entry.orders
      /\ v \in {"", "all"} => query = Null /\ parameters = entry.parameters
      /\ v = "archive" =>
           /\ query = "library_item.archived_at IS NOT NULL"
           /\ parameters = entry.parameters
      /\ v = "trash" =>
           /\ query = "library_item.deleted_at >= now() - interval '14 days'"
           /\ parameters = entry.parameters
      /\ (v \notin {"", "all", "archive", "trash"} /\ ~entry.useFolders) =>
           /\ query = "library_item.archived_at IS NULL"
           /\ parameters = entry.parameters
      /\ (v \notin {"", "all", "archive", "trash"} /\ entry.useFolders) =>
           /\ query = "(library_item.archived_at IS NULL AND library_item.folder = :folder_"
                        \o n \o ")"
           /\ parameters = Append(entry.parameters,
                ("folder_" \o n) :> <<"str", Str(searchQuery[3][2])>>)

\* in:Foo with folders in use, after one parameter was bound
C26_Witness ==
  /\ Built /\ error = ""
  /\ searchQuery = Tag(Field(f_in), Lit(v_Foo))
  /\ entry.useFolders
  /\ Len(entry.parameters) = 1
  /\ parameters[2] = ("folder_1" :> <<"str", "Foo">>)
  /\ query = "(library_item.archived_at IS NULL AND library_item.folder = :folder_1)"

StartsWith(text, prefix) ==
  Len(text) >= Len(prefix) /\ SubSeq(text, 1, Len(prefix)) = prefix

\* the clauses of the tags of LogicLeaves
Atoms ==
  { "library_item.reading_progress_bottom_percent > 98",
    "library_item.reading_progress_bottom_percent < 2",
    "library_item.archived_at IS NULL" }

\* a predicate as a sequence of tokens: parentheses, connectives, atoms
RECURSIVE Tokens(_)
Tokens(text) ==
  IF text = "" THEN <<>>
  ELSE IF StartsWith(text, " ") THEN Tokens(SubSeq(text, 2, Len(text)))
  ELSE IF \E t \in {"(", ")", "AND", "OR", "NOT"} : StartsWith(text, t)
  THEN LET t == CHOOSE t \in {"(", ")", "AND", "OR", "NOT"} : StartsWith(text, t)
       IN <<t>> \o Tokens(SubSeq(text, Len(t) + 1, Len(text)))
  ELSE LET a == CHOOSE a \in Atoms : StartsWith(text, a)
       IN <<a>> \o Tokens(SubSeq(text, Len(a) + 1, Len(text)))

\* the truth value of a token sequence read with the precedence of SQL:
\* NOT before AND before OR; true is the set of atoms that hold
RECURSIVE ReadOr(_, _), ReadOrRest(_, _, _), ReadAnd(_, _),
          ReadAndRest(_, _, _), ReadNot(_, _)
ReadNot(ts, true) ==
  IF Head(ts) = "NOT"
  THEN LET r == ReadNot(Tail(ts), true) IN [val |-> ~r.val, rest |-> r.rest]
  ELSE IF Head(ts) = "("
  THEN LET r == ReadOr(Tail(ts), true) IN [val |-> r.val, rest |-> Tail(r.rest)]
  ELSE [val |-> Head(ts) \in true, rest |-> Tail(ts)]
ReadAndRest(val, ts, true) ==
  IF ts # <<>> /\ Head(ts) = "AND"
  THEN LET r == ReadNot(Tail(ts), true)
       IN ReadAndRest(val /\ r.val, r.rest, true)
  ELSE [val |-> val, rest |-> ts]
ReadAnd(ts, true) ==
  LET l == ReadNot(ts, true) IN ReadAndRest(l.val, l.rest, true)
ReadOrRest(val, ts, true) ==
  IF ts # <<>> /\ Head(ts) = "OR"
  THEN LET r == ReadAnd(Tail(ts), true)
       IN ReadOrRest(val \/ r.val, r.rest, true)
  ELSE [val |-> val, rest |-> ts]
ReadOr(ts, true) ==
  LET l == ReadAnd(ts, true) IN ReadOrRest(l.val, l.rest, true)

\* the truth value of a tree, node by node
RECURSIVE Meaning(_, _)
Meaning(ast, true) ==
  CASE ast[1] = "Tag" ->
         buildQuery(ast, <<>>, <<>>, <<>>, FALSE, Midnight).clause \in true
    [] ast[1] = "LogicalExpression" ->
         IF ast[2] = "AND" THEN Meaning(ast[3], true) /\ Meaning(ast[4], true)
         ELSE Meaning(ast[3], true) \/ Meaning(ast[4], true)
    [] ast[1] = "UnaryOperator" -> ~Meaning(ast[2], true)
    [] ast[1] = "ParenthesizedExpression" -> Meaning(ast[2], true)

\* C27: for a tree whose leaves compile to atomic clauses and for every
\* truth assignment to them, the predicate read with the precedence of SQL
\* has the truth value of the tree evaluated node by node
C27_MeaningPreserved ==
  (Built /\ error = "" /\ searchQuery \in LogicTrees) =>
    \A true \in SUBSET Atoms :
      ReadOr(Tokens(query), true).val = Meaning(searchQuery, true)

\* the column names a predicate refers to as 'library_item.<column>'
Columns(text) ==
  { SubSeq(text, i + 13, IdentifierEnd(text, i + 13)) :
      i \in { k \in 1..(Len(text) - 13) :
                /\ SubSeq(text, k, k + 12) = "library_item."
                /\ SubSeq(text, k + 13, k + 13) \in IdentifierChars } }

\* the tag with its field name in lower case
LowerCased(tag) == Tag(Field(toLowerCase(tag[2][2])), tag[3])

\* C28: a named tag compiles to a clause that names the same columns as the
\* tag with the field name in lower case and the same value
C28_FieldCaseInsensitive ==
  (Built /\ IsTag(searchQuery) /\ searchQuery[2][1] = "Field") =>
    \E lower \in {FromEntry(LowerCased(searchQuery))} :
      /\ lower.err = error
      /\ (error = "" /\ query # Null) =>
           /\ lower.clause # Null
           /\ Columns(query) = Columns(lower.clause)

\* a tag that compiles to null without being a sort directive: an empty
\* literal, in:all, a use, mode or event tag, a sort tag with a field that
\* is no sort key
IsSilent(tag) ==
  /\ IsTag(tag) /\ tag[3][1] = "LiteralExpression"
  /\ \/ tag[3][2] = <<>>
     \/ /\ tag[2][1] = "Field"
        /\ \/ /\ Str(toLowerCase(tag[2][2])) = "in"
              /\ Str(toLowerCase(tag[3][2])) = "all"
           \/ Str(toLowerCase(tag[2][2])) \in {"use", "mode", "event"}
           \/ IsSortTag(tag) /\ ~IsSortDirective(tag)

\* one tag of each of these kinds
SilentTags ==
  { Tag(ImplicitField, Lit(v_empty)), Tag(Field(f_label), Lit(v_empty)),
    Tag(Field(f_in), Lit(v_All)), Tag(Field(f_use), Lit(v_foo)),
    Tag(Field(f_mode), Lit(v_foo)), Tag(Field(f_event), Lit(v_foo)),
    Tag(Field(f_sort), Lit(v_bad \o <<"-">> \o v_asc)) }

\* C29: a tag with an empty literal, in:all, a use, mode or event tag and a
\* sort tag with an unrecognized field compile to null, raise nothing and
\* leave the parameter, select and sort lists as they were; a tag compiled
\* after such a tag compiles as it does without it, to the same clause,
\* parameters, selects, sort keys and error
C29_SilentTags ==
  (Built /\ IsTag(searchQuery)) =>
    /\ IsSilent(searchQuery) =>
         /\ error = "" /\ query = Null
         /\ parameters = entry.parameters
         /\ selects = entry.selects
         /\ orders = entry.orders
    /\ \A silent \in SilentTags :
         /\ IsSilent(silent)
         /\ \E r \in {FromEntry(LogicalExpression("AND", silent, searchQuery))} :
              /\ r.err = error
              /\ r.clause = query
              /\ r.parameters = parameters
              /\ r.selects = selects
              /\ r.orders = orders

\* event:foo compiled after one parameter was bound
C29_Witness ==
  /\ Built /\ error = "" /\ query = Null
  /\ searchQuery = Tag(Field(f_event), Lit(v_foo))
  /\ Len(entry.parameters) = 1
  /\ parameters = entry.parameters

\* what a stored value is after a call that supplies a value for it: 0 for
\* a supplied 0, else the larger of the two; unchanged when none is supplied
Larger(previous, supplied) ==
  IF supplied = NoValue THEN previous
  ELSE IF supplied = 0 THEN 0
  ELSE IF supplied > previous THEN supplied ELSE previous

\* C30: after every call of updateLibraryItemReadingProgress on the item,
\* the stored top percent, bottom percent and highest-read anchor each equal
\* 0 if 0 was supplied for it, else the larger of its previous stored value
\* and the value supplied for it
C30_ProgressMonotone ==
  (progress.request # <<>> /\ progress.request[1] = 1) =>
    /\ progress.stored.bottom = Larger(progress.before.bottom, progress.request[2])
    /\ progress.stored.top = Larger(progress.before.top, progress.request[3])
    /\ progress.stored.anchor = Larger(progress.before.anchor, progress.request[4])

====
